---- MODULE Spec2Model ----
(***************************************************************************)
(* A model of the Signal of src/Obj.js: the revision / conflict protocol   *)
(* (set, sync), the notification pipeline (subscribe, unsubscribe, notify, *)
(* scheduler and its micro-task flush) and dispose.                        *)
(*                                                                         *)
(* JavaScript runs one job at a time, so every method is one atomic        *)
(* action.  The micro-task armed by scheduler() is a separate action       *)
(* (Flush): it runs after the job that armed it, and any number of other   *)
(* synchronous calls of that job may come between.  Subscriber callbacks   *)
(* are user code: a callback either returns or throws, and which it does   *)
(* is chosen at each invocation.                                           *)
(*                                                                         *)
(* Arr and Obj (src/Arr.js, src/Obj.js) hand the raw container to their    *)
(* Signal and return the Proxy of Watcher.watch (src/index.js) over it:    *)
(* value is then the reference This and contents what the container holds. *)
(*                                                                         *)
(* Specifications: Spec (revision and merge protocol), SpecNotify (the     *)
(* notification pipeline), SpecWrite (every call but sync, every argument  *)
(* of set), SpecDefault (the conflict history of a default Signal),        *)
(* SpecMerge (merges and local writes), SpecDispose (dispose and           *)
(* addDisposable), SpecSubscribe (the subscriber set, null values),        *)
(* SpecArr and SpecObj (the two containers behind their proxies),          *)
(* SpecObjData (an Obj constructed over initial data), SpecWatch (the get  *)
(* and set traps of Watcher.watch with every hook), SpecCombine (filter,   *)
(* map and combineLatest children of two parent Signals), SpecDiff (the    *)
(* Arr of src/Obj.js whose subscribers receive a diff), SpecBuilder        *)
(* (Builder.create over a tree of Obj and Arr nodes), SpecWalk (one call   *)
(* of Walker.walk over a graph of containers, one step per action),        *)
(* SpecReentrant (callbacks that write during the flush), SpecSync (a      *)
(* Signal with synchronization receiving storage events), SpecPair (two    *)
(* Signals with persistence and synchronization on one key), SpecDelivered *)
(* (callbacks that push to the Arr they are handed).                       *)
(***************************************************************************)
EXTENDS Integers, Sequences, FiniteSets, TLC

\* ---------------------------------------------------------------- bounds
MaxRev == 3        \* revisions explored: 1 .. MaxRev
MaxId == 3         \* revision ids explored: 1 .. MaxId
NumSubs == 2       \* subscriber callbacks
MaxKeep == 1       \* configured conflict depths explored: 1 .. MaxKeep
MaxConflicts == 1  \* length to which an unbounded conflict history is explored
MaxOverflow == 1   \* SpecDefault: conflicts explored beyond maxConflicting
MaxLen == 3        \* Arr: lengths explored: 0 .. MaxLen
MaxElem == 2       \* Arr, Obj: the elements stored are 1 .. MaxElem
MaxDiffLen == 3    \* diffing Arr: lengths explored: 0 .. MaxDiffLen
MaxDiffElem == 3   \* diffing Arr: the elements pushed are 1 .. MaxDiffElem
MaxPath == 3       \* Builder: pieces of a path expression: 1 .. MaxPath
MaxNodes == 4      \* Builder: nodes a tree is grown to
MaxNode == 2       \* Walker: containers of the input: 1 .. MaxNode

\* the default of the "maxConflicting" option
maxConflicting == 16

\* ----------------------------------------------------------- value domains
Undefined == "undefined"
Values == {Undefined, "a"}
\* the value null, held only by the Signals of SpecSubscribe
JsNull == "null"
\* the reference an Arr or Obj hands to its Signal: new Signal(this, options)
This == "this"
\* revision ids are strings compared with >; the model takes 1 .. MaxId with
\* the order of the integers for the lexicographic order of the strings
RevIds == 1 .. MaxId
Subs == 1 .. NumSubs
\* an argument of subscribe() that is not a function
NotAFunction == 0
Null == <<>>
\* no walk of a Walker
NoWalk == <<>>
\* an optional number: <<>> when absent (null / undefined), <<n>> otherwise
NoRev == <<>>
RevArgs == {NoRev} \cup {<<n>> : n \in 1 .. MaxRev}
ConflictingOptions == {<<>>} \cup {<<n>> : n \in 1 .. MaxKeep}
\* what sync() receives: { rev, revId, value }
RemoteRecords == [rev : 1 .. (MaxRev - 1), revId : RevIds, value : Values]

VARIABLES
    cfg,                \* #useScheduling, #usePersistence, #conflicting; for a bare
                        \* proxy (SpecWatch) the arguments of Watcher.watch
    value,              \* #value
    contents,           \* the elements / entries of the container #value refers to
    previousState,      \* #previousState of the diffing Arr
    walk,               \* Walker.walk: its call stack, visited and what it returned
    events,             \* the storage events the host has queued for dispatch
    rev,                \* #rev
    revId,              \* #revId
    usedIds,            \* the ids #uuid() has returned to this Signal
    conflicts,          \* #conflicts
    changeSubscribers,  \* #changeSubscribers, in insertion order
    scheduleQueue,      \* #scheduleQueue, in insertion order
    schedulePending,    \* #schedulePending
    microtask,          \* the flush callback is in the host's micro-task queue
    store,              \* the localStorage item under domain + separator + name
    disposables,        \* #disposables
    disposedSubs,       \* callbacks that dispose() removed and that were not registered again
    last,               \* the last call and how it ended
    invoked             \* the callback invocations of the last call, in order; for
                        \* a bare proxy the hooks it ran and the underlying operation

vars == <<cfg, value, contents, previousState, walk, events, rev, revId, usedIds, conflicts, changeSubscribers,
          scheduleQueue, schedulePending, microtask, store, disposables,
          disposedSubs, last, invoked>>

\* ---------------------------------------------------------------- helpers
Range(s) == {s[i] : i \in DOMAIN s}

\* Array.prototype.push in the place of Set.prototype.add
SetAdd_Push(q, s) == Append(q, s)

\* Set.prototype.add: insertion order, no duplicates
SetAdd(q, s) == IF s \in Range(q) THEN q ELSE Append(q, s)

RECURSIVE SetAddAll(_, _)
SetAddAll(q, ss) ==
    IF ss = <<>> THEN q ELSE SetAddAll(SetAdd(q, Head(ss)), Tail(ss))

\* Set.prototype.delete
SetDelete(q, s) == SelectSeq(q, LAMBDA x : x # s)

\* the calls f(v) a loop over the callbacks fs makes when the k-th of them
\* throws (k = 0: none throws)
Deliver(fs, v, k) ==
    [i \in 1 .. (IF k = 0 THEN Len(fs) ELSE k) |-> [sub |-> fs[i], val |-> v]]

InvokedSubs == {invoked[i].sub : i \in DOMAIN invoked}

\* what a callback called with #value sees: the value, or for a container
\* the contents it has at that moment
Observed == IF value = This THEN contents ELSE value
\* ------------------------------------------------------------ the Signal

\* sync(): the splice that bounds #conflicts.  With #conflicting undefined the
\* comparison length > undefined is false and nothing is removed.
Trim(c) ==
    IF cfg.conflicting # <<>> /\ Len(c) > cfg.conflicting[1]
    THEN SubSeq(c, Len(c) - cfg.conflicting[1] + 1, Len(c))
    ELSE c

\* sync() calling set(value, rev + 1) whatever the incoming revision is
Accepts_AnyRevision(rec) == rec.rev \in Nat

\* sync(): the condition under which it calls set(value, rev + 1)
Accepts(rec) ==
    \/ rec.rev > rev
    \/ rec.rev = rev /\ rec.revId > revId

\* scheduler(subscriber), for each subscriber of fs in turn
scheduler(fs) ==
    /\ scheduleQueue' = SetAddAll(scheduleQueue, fs)
    /\ IF fs # <<>> /\ ~schedulePending
       THEN schedulePending' = TRUE /\ microtask' = TRUE
       ELSE UNCHANGED <<schedulePending, microtask>>
    /\ invoked' = <<>>

\* notify() with each call of a callback in a try that drops what it throws
notify_CatchesAndContinues(v, k) ==
    IF cfg.scheduling
    THEN k = 0 /\ scheduler(changeSubscribers)
    ELSE /\ k \in 0 .. Len(changeSubscribers)
         /\ invoked' = Deliver(changeSubscribers, v, 0)
         /\ UNCHANGED <<scheduleQueue, schedulePending, microtask>>

\* notify(), the Signal holding v; k: the k-th callback invoked throws (0: none)
notify(v, k) ==
    IF cfg.scheduling
    THEN k = 0 /\ scheduler(changeSubscribers)
    ELSE /\ k \in 0 .. Len(changeSubscribers)
         /\ invoked' = Deliver(changeSubscribers, v, k)
         /\ UNCHANGED <<scheduleQueue, schedulePending, microtask>>

\* set() without its first line, the Object.is test
set_NoIdentityTest(newValue, r, bump, k, id) ==
    /\ value' = newValue
    /\ IF bump
       THEN /\ rev' = IF r # NoRev THEN r[1] ELSE rev + 1
            /\ id \notin usedIds
            /\ revId' = id
            /\ usedIds' = usedIds \cup {id}
       ELSE id = revId /\ UNCHANGED <<rev, revId, usedIds>>
    /\ store' = store
    /\ IF cfg.persistence
       THEN /\ k = 0
            /\ invoked' = <<>>
            /\ UNCHANGED <<scheduleQueue, schedulePending, microtask>>
       ELSE notify(newValue, k)

\* set(newValue, rev, bump); id: the revisionId after the call, which is what
\* #uuid() returns when the call reaches it.
\* JSON.stringify(this) calls toJSON(), whose serialize() evaluates
\* new ({...}): a TypeError.  With persistence the call ends there, after the
\* assignments, with nothing stored and without reaching notify().
set(newValue, r, bump, k, id) ==
    IF newValue = value
    THEN /\ k = 0
         /\ id = revId
         /\ UNCHANGED <<value, rev, revId, usedIds, store, scheduleQueue,
                        schedulePending, microtask>>
         /\ invoked' = <<>>
    ELSE /\ value' = newValue
         /\ IF bump
            THEN /\ rev' = IF r # NoRev THEN r[1] ELSE rev + 1
                 /\ id \notin usedIds
                 /\ revId' = id
                 /\ usedIds' = usedIds \cup {id}
            ELSE id = revId /\ UNCHANGED <<rev, revId, usedIds>>
         /\ store' = store
         /\ IF cfg.persistence
            THEN /\ k = 0
                 /\ invoked' = <<>>
                 /\ UNCHANGED <<scheduleQueue, schedulePending, microtask>>
            ELSE notify(newValue, k)

\* how a call set(newValue, ...) ends
SetOutcome(newValue, k) ==
    IF newValue = value THEN "noop"
    ELSE IF cfg.persistence THEN "serializeThrew"
    ELSE IF cfg.scheduling THEN "scheduled"
    ELSE IF k # 0 THEN "subscriberThrew"
    ELSE "delivered"

\* sync({ rev, revId, value })
sync(rec, k, id) ==
    /\ conflicts' = IF rec.rev = rev THEN Trim(Append(conflicts, rec)) ELSE conflicts
    /\ IF Accepts(rec)
       THEN set(rec.value, <<rec.rev + 1>>, TRUE, k, id)
       ELSE /\ k = 0
            /\ id = revId
            /\ invoked' = <<>>
            /\ UNCHANGED <<value, rev, revId, usedIds, store, scheduleQueue,
                           schedulePending, microtask>>

\* the branch sync(rec) takes
SyncBranch(rec) ==
    IF rec.rev > rev THEN "higher"
    ELSE IF rec.rev = rev /\ rec.revId > revId THEN "tie"
    ELSE IF rec.rev = rev THEN "conflict"
    ELSE "lower"

\* ---------------------------------------------------------------- actions

Set(newValue, r, bump, k, id) ==
    /\ (bump /\ r = NoRev) => rev < MaxRev
    /\ set(newValue, r, bump, k, id)
    /\ last' = [op |-> "set", how |-> SetOutcome(newValue, k), bump |-> bump,
                threw |-> IF SetOutcome(newValue, k) = "subscriberThrew" THEN k ELSE 0]
    /\ UNCHANGED <<cfg, events, previousState, walk, contents, conflicts, changeSubscribers, disposables, disposedSubs>>

\* cap: the length to which an unbounded #conflicts is explored
SyncUpTo(rec, k, id, cap) ==
    /\ (rec.rev = rev /\ cfg.conflicting = <<>>) => Len(conflicts) < cap
    /\ sync(rec, k, id)
    /\ last' = [op |-> "sync", how |-> SyncBranch(rec), rec |-> rec,
                set |-> IF Accepts(rec) THEN SetOutcome(rec.value, k) ELSE "none"]
    /\ UNCHANGED <<cfg, events, previousState, walk, contents, changeSubscribers, disposables, disposedSubs>>

Sync(rec, k, id) == SyncUpTo(rec, k, id, MaxConflicts)

\* subscribe() testing the value against undefined only
Subscribe_NoNullTest(s, autorun, throws) ==
    /\ IF s \notin Subs
       THEN /\ throws = FALSE
            /\ invoked' = <<>>
            /\ UNCHANGED <<changeSubscribers, disposedSubs>>
       ELSE /\ IF autorun /\ value # Undefined
               THEN invoked' = <<[sub |-> s, val |-> Observed]>>
               ELSE throws = FALSE /\ invoked' = <<>>
            /\ IF throws
               THEN UNCHANGED <<changeSubscribers, disposedSubs>>
               ELSE /\ changeSubscribers' = SetAdd(changeSubscribers, s)
                    /\ disposedSubs' = disposedSubs \ {s}
    /\ last' = [op |-> "subscribe",
                how |-> IF s \notin Subs THEN "notAFunction"
                        ELSE IF throws THEN "subscriberThrew" ELSE "added",
                sub |-> s, autorun |-> autorun,
                again |-> s \in Range(changeSubscribers)]
    /\ UNCHANGED <<cfg, events, previousState, walk, contents, value, rev, revId, usedIds, conflicts, scheduleQueue,
                   schedulePending, microtask, store, disposables>>

\* subscribe() without its first line, the typeof test: what is not a function
\* is added to the set unless the autorun call of it comes first, which is a
\* TypeError
Subscribe_NoTypeTest(s, autorun, throws) ==
    /\ IF autorun /\ value \notin {Undefined, JsNull} /\ s \in Subs
       THEN invoked' = <<[sub |-> s, val |-> Observed]>>
       ELSE throws = FALSE /\ invoked' = <<>>
    /\ IF throws \/ (s \notin Subs /\ autorun /\ value \notin {Undefined, JsNull})
       THEN UNCHANGED <<changeSubscribers, disposedSubs>>
       ELSE /\ changeSubscribers' = SetAdd(changeSubscribers, s)
            /\ disposedSubs' = disposedSubs \ {s}
    /\ last' = [op |-> "subscribe",
                how |-> IF throws THEN "subscriberThrew"
                        ELSE IF s \in Range(changeSubscribers') THEN "added"
                        ELSE "notAFunction",
                sub |-> s, autorun |-> autorun,
                again |-> s \in Range(changeSubscribers)]
    /\ UNCHANGED <<cfg, events, previousState, walk, contents, value, rev, revId, usedIds, conflicts, scheduleQueue,
                   schedulePending, microtask, store, disposables>>

\* subscribe(subscriber, autorun); throws: the autorun call of the callback throws
Subscribe(s, autorun, throws) ==
    /\ IF s \notin Subs
       THEN /\ throws = FALSE
            /\ invoked' = <<>>
            /\ UNCHANGED <<changeSubscribers, disposedSubs>>
       ELSE /\ IF autorun /\ value \notin {Undefined, JsNull}
               THEN invoked' = <<[sub |-> s, val |-> Observed]>>
               ELSE throws = FALSE /\ invoked' = <<>>
            /\ IF throws
               THEN UNCHANGED <<changeSubscribers, disposedSubs>>
               ELSE /\ changeSubscribers' = SetAdd(changeSubscribers, s)
                    /\ disposedSubs' = disposedSubs \ {s}
    /\ last' = [op |-> "subscribe",
                how |-> IF s \notin Subs THEN "notAFunction"
                        ELSE IF throws THEN "subscriberThrew" ELSE "added",
                sub |-> s, autorun |-> autorun,
                again |-> s \in Range(changeSubscribers)]
    /\ UNCHANGED <<cfg, events, previousState, walk, contents, value, rev, revId, usedIds, conflicts, scheduleQueue,
                   schedulePending, microtask, store, disposables>>

Unsubscribe(s) ==
    /\ changeSubscribers' = SetDelete(changeSubscribers, s)
    /\ invoked' = <<>>
    /\ last' = [op |-> "unsubscribe", how |-> "removed", sub |-> s]
    /\ UNCHANGED <<cfg, events, previousState, walk, contents, value, rev, revId, usedIds, conflicts, scheduleQueue,
                   schedulePending, microtask, store, disposables, disposedSubs>>

Notify(k) ==
    /\ notify(value, k)
    /\ last' = [op |-> "notify",
                how |-> IF cfg.scheduling THEN "scheduled"
                        ELSE IF k # 0 THEN "subscriberThrew" ELSE "delivered",
                threw |-> k]
    /\ UNCHANGED <<cfg, events, previousState, walk, contents, value, rev, revId, usedIds, conflicts, changeSubscribers,
                   store, disposables, disposedSubs>>

\* the micro-task of scheduler(); k: the k-th callback invoked throws (0: none).
\* A throw leaves the loop and the callback: the queue is not cleared and
\* #schedulePending stays true.
Flush(k) ==
    /\ microtask
    /\ k \in 0 .. Len(scheduleQueue)
    /\ invoked' = Deliver(scheduleQueue, Observed, k)
    /\ microtask' = FALSE
    /\ IF k = 0
       THEN scheduleQueue' = <<>> /\ schedulePending' = FALSE
       ELSE UNCHANGED <<scheduleQueue, schedulePending>>
    /\ last' = [op |-> "flush", how |-> IF k # 0 THEN "subscriberThrew" ELSE "delivered"]
    /\ UNCHANGED <<cfg, events, previousState, walk, contents, value, rev, revId, usedIds, conflicts, changeSubscribers,
                   store, disposables, disposedSubs>>

\* the micro-task of scheduler() in which the j-th callback of the queue
\* writes to the Signal: set(v) with v not the value held and id what
\* #uuid() returns.  The callbacks up to the j-th were called with the value
\* held before.  notify() inside that set() adds the registered callbacks to
\* the queue the loop is iterating (a Set: those already in it keep their
\* place and are not visited again, new ones are visited at the end) and
\* arms nothing, #schedulePending being true.  The callbacks after the j-th
\* are called with v; then the queue and the flag are cleared.
FlushWrite(j, v, id) ==
    /\ microtask
    /\ cfg.scheduling /\ ~cfg.persistence
    /\ j \in 1 .. Len(scheduleQueue)
    /\ v # value
    /\ rev < MaxRev
    /\ id \notin usedIds
    /\ LET q == SetAddAll(scheduleQueue, changeSubscribers)
       IN  invoked' = [i \in 1 .. Len(q) |->
                          [sub |-> q[i], val |-> IF i <= j THEN value ELSE v]]
    /\ value' = v
    /\ rev' = rev + 1
    /\ revId' = id
    /\ usedIds' = usedIds \cup {id}
    /\ scheduleQueue' = <<>>
    /\ schedulePending' = FALSE
    /\ microtask' = FALSE
    /\ last' = [op |-> "flush", how |-> "wrote"]
    /\ UNCHANGED <<cfg, events, previousState, walk, contents, conflicts, changeSubscribers,
                   store, disposables, disposedSubs>>

\* dispose() without its last line, #disposables.clear()
Dispose_KeepsDisposables ==
    /\ changeSubscribers' = <<>>
    /\ store' = IF "removeItem" \in disposables THEN Null ELSE store
    /\ disposables' = disposables
    /\ disposedSubs' = disposedSubs \cup Range(changeSubscribers)
    /\ invoked' = <<>>
    /\ last' = [op |-> "dispose", how |-> "disposed", ran |-> disposables,
                again |-> last.op = "dispose"]
    /\ UNCHANGED <<cfg, events, previousState, walk, contents, value, rev, revId, usedIds, conflicts, scheduleQueue,
                   schedulePending, microtask>>

\* dispose(): every disposable is run, then the set is cleared.  The
\* disposables are the removeItem of the constructor, which empties the
\* stored item, and those handed to addDisposable(), which return.
\* ran: the disposables this call has run; again: the call before this one
\* was dispose() as well
Dispose ==
    /\ changeSubscribers' = <<>>
    /\ store' = IF "removeItem" \in disposables THEN Null ELSE store
    /\ disposables' = {}
    /\ disposedSubs' = disposedSubs \cup Range(changeSubscribers)
    /\ invoked' = <<>>
    /\ last' = [op |-> "dispose", how |-> "disposed", ran |-> disposables,
                again |-> last.op = "dispose"]
    /\ UNCHANGED <<cfg, events, previousState, walk, contents, value, rev, revId, usedIds, conflicts, scheduleQueue,
                   schedulePending, microtask>>

\* the functions handed to addDisposable()
UserDisposables == {"d"}

\* addDisposable(d)
AddDisposable(d) ==
    /\ disposables' = disposables \cup {d}
    /\ invoked' = <<>>
    /\ last' = [op |-> "addDisposable", how |-> "added"]
    /\ UNCHANGED <<cfg, events, previousState, walk, contents, value, rev, revId, usedIds, conflicts,
                   changeSubscribers, scheduleQueue, schedulePending, microtask,
                   store, disposedSubs>>

\* ------------------------------------------------------- synchronization
\* With { synchronization: true } the constructor registers a listener of the
\* host's "storage" events and keeps the function that removes it among the
\* disposables.  Nothing else removes that disposable, so the listener is
\* registered exactly as long as it is there.

\* #useSynchronization of a configuration (an option the Signals of most
\* specifications are made without)
Synchronizes(c) == "synchronization" \in DOMAIN c /\ c.synchronization

\* what the constructor hands to addDisposable() for synchronize()
ListenerDisposables(c) == IF Synchronizes(c) THEN {"removeEventListener"} ELSE {}

\* a listener that no dispose() removes
Listening_Always(ds) == TRUE

\* the watcher of synchronize() is registered
Listening(ds) == "removeEventListener" \in ds

\* the envelopes toJSON() describes, { key, rev, revId, val }, as a writer of
\* the key leaves them in the store (the key is the one of the Signal)
Envelopes == [rev : 1 .. (MaxRev - 1), revId : RevIds, val : Values]

\* what another writer may have left under the key; the constructor reads only
\* rev and revId of it (sync() takes the field "value", the envelope has "val").
\* With the greatest id and each revision, every branch of sync() is taken.
StoredEnvelopes == [rev : 1 .. (MaxRev - 1), revId : {MaxId}, val : {"a"}]

\* sync(JSON.parse(text)) of an envelope: the parameter { rev, revId, value }
\* takes rev and revId from it and finds no "value", the envelope having "val"
fromEnvelope(env) == [rev |-> env.rev, revId |-> env.revId, value |-> Undefined]

\* the host dispatches a storage event for the key with newValue the text of
\* env.  Without listener nothing runs; otherwise the watcher calls sync().
StorageEvent(env, k, id) ==
    /\ IF Listening(disposables)
       THEN LET rec == fromEnvelope(env)
            IN  /\ (rec.rev = rev /\ cfg.conflicting = <<>>) => Len(conflicts) < MaxConflicts
                /\ sync(rec, k, id)
                /\ last' = [op |-> "event", how |-> SyncBranch(rec), env |-> env,
                            set |-> IF Accepts(rec) THEN SetOutcome(rec.value, k) ELSE "none"]
       ELSE /\ k = 0
            /\ id = revId
            /\ invoked' = <<>>
            /\ last' = [op |-> "event", how |-> "noListener", env |-> env, set |-> "none"]
            /\ UNCHANGED <<value, rev, revId, usedIds, conflicts, store, scheduleQueue,
                           schedulePending, microtask>>
    /\ UNCHANGED <<cfg, events, previousState, walk, contents, changeSubscribers, disposables, disposedSubs>>

\* a storage event for the key with newValue null (the item was removed):
\* JSON.parse(null) is null, and sync(null) cannot destructure it
StorageRemoved ==
    /\ invoked' = <<>>
    /\ last' = [op |-> "removed",
                how |-> IF Listening(disposables) THEN "typeError" ELSE "noListener"]
    /\ UNCHANGED <<cfg, events, previousState, walk, contents, value, rev, revId, usedIds, conflicts,
                   changeSubscribers, scheduleQueue, schedulePending, microtask, store,
                   disposables, disposedSubs>>

\* --------------------------------------------- two Signals on one key
\* Signals A and B made with { persistence: true, synchronization: true } and
\* the same domain and name, each in a document of its own over one
\* localStorage.  The variables of a Signal are here functions over the two,
\* store is the item they share, and events the storage events the host has
\* queued: a change of the item made in one document is an event for the
\* other.  Neither has a subscriber.

Peers == {"A", "B"}
Other(p) == IF p = "A" THEN "B" ELSE "A"

\* the condition under which sync(rec) of the Signal p calls set()
PeerAccepts(p, rec) ==
    \/ rec.rev > rev[p]
    \/ rec.rev = rev[p] /\ rec.revId > revId[p]

\* p.value = v.  JSON.stringify(this) throws (serialize) after the
\* assignments: nothing is stored, so the host has no event to queue.
PeerSet(p, v, id) ==
    /\ rev[p] < MaxRev
    /\ IF v = value[p]
       THEN /\ id = revId[p]
            /\ last' = [op |-> "set", sig |-> p, how |-> "noop"]
            /\ UNCHANGED <<value, rev, revId, usedIds>>
       ELSE /\ id \notin usedIds[p]
            /\ value' = [value EXCEPT ![p] = v]
            /\ rev' = [rev EXCEPT ![p] = @ + 1]
            /\ revId' = [revId EXCEPT ![p] = id]
            /\ usedIds' = [usedIds EXCEPT ![p] = @ \cup {id}]
            /\ last' = [op |-> "set", sig |-> p, how |-> "serializeThrew"]
    /\ UNCHANGED <<cfg, events, previousState, walk, contents, conflicts, changeSubscribers,
                   scheduleQueue, schedulePending, microtask, store, disposables,
                   disposedSubs, invoked>>

\* p.dispose(): removeEventListener, then removeItem; removing the item that
\* is there is an event for the other document
PeerDispose(p) ==
    /\ disposables' = [disposables EXCEPT ![p] = {}]
    /\ IF "removeItem" \in disposables[p] /\ store \in StoredEnvelopes
       THEN /\ store' = Null
            /\ events' = Append(events, [to |-> Other(p), removed |-> TRUE])
       ELSE UNCHANGED <<store, events>>
    /\ last' = [op |-> "dispose", sig |-> p, how |-> "disposed"]
    /\ UNCHANGED <<cfg, previousState, walk, contents, value, rev, revId, usedIds, conflicts,
                   changeSubscribers, scheduleQueue, schedulePending, microtask,
                   disposedSubs, invoked>>

\* the host dispatches the first queued event, whose newValue is null: the
\* watcher, if still registered, calls sync(JSON.parse(null)), a TypeError
PeerDispatch ==
    /\ events # <<>>
    /\ events' = Tail(events)
    /\ last' = [op |-> "removed", sig |-> Head(events).to,
                how |-> IF Listening(disposables[Head(events).to])
                        THEN "typeError" ELSE "noListener"]
    /\ UNCHANGED <<cfg, previousState, walk, contents, value, rev, revId, usedIds, conflicts,
                   changeSubscribers, scheduleQueue, schedulePending, microtask, store,
                   disposables, disposedSubs, invoked>>

\* ------------------------------------------------- the interception layer
\* Arr and Obj return Watcher.watch(this, members): a Proxy over the raw
\* container, which is also the #value of their Signal.  The traps run the
\* underlying operation on the raw container, then the "after" hook of the
\* first matching member, which is notify() for every member of Arr and Obj,
\* then subscriberFn(prop).

Elems == 1 .. MaxElem
\* an array slot without an element
Hole == 0
Holes(n) == [i \in 1 .. n |-> Hole]
\* a key an Obj does not have
Absent == 0
Keys == {"a", "b", "_p"}
\* prop.startsWith('_')
PrivateKeys == {"_p"}

\* the third argument of Watcher.watch as Arr and Obj call it
subscriberFn == Undefined

\* subscriberFn(prop), the last statement but one of both traps
CallSubscriberFn == IF subscriberFn = Undefined THEN "typeError" ELSE "returned"

\* how a trap ends after the underlying operation: a callback of an immediate
\* notify() throws out of config.after(), or subscriberFn(prop) is reached
TrapOutcome(k) ==
    IF ~cfg.scheduling /\ k # 0 THEN "subscriberThrew" ELSE CallSubscriberFn

\* the members of Arr: /^\d+$/ (written "index" here) and the name test
ArrWatched(prop) ==
    \/ prop = "index"
    \/ prop \in {"push", "pop", "shift", "unshift", "splice", "sort", "reverse", "length"}

\* a member of Obj whose name test accepts every string
ObjWatched_EveryKey(prop) == prop \in STRING

\* the member of Obj, for prop a string
ObjWatched(prop) == prop \notin PrivateKeys

\* Array.prototype methods on the raw array
ArrayPop(a) == IF a = <<>> THEN a ELSE SubSeq(a, 1, Len(a) - 1)
ArrayShift(a) == IF a = <<>> THEN a ELSE Tail(a)
ArrayReverse(a) == [i \in 1 .. Len(a) |-> a[Len(a) + 1 - i]]

\* sort() without a comparator: elements in ascending order (the elements are
\* single digits, whose string order is their numeric order), holes last
RECURSIVE SortedUpTo(_, _)
SortedUpTo(a, m) ==
    IF m = 0 THEN <<>>
    ELSE SortedUpTo(a, m - 1) \o SelectSeq(a, LAMBDA x : x = m)

ArraySort(a) == SortedUpTo(a, MaxElem) \o SelectSeq(a, LAMBDA x : x = Hole)

\* a.length = n
ArraySetLength(a, n) ==
    IF n <= Len(a) THEN SubSeq(a, 1, n) ELSE a \o Holes(n - Len(a))

\* a[i] = x, i counted from 0
ArraySetIndex(a, i, x) ==
    IF i < Len(a) THEN [a EXCEPT ![i + 1] = x]
    ELSE a \o Holes(i - Len(a)) \o <<x>>

\* super(...data) of the Arr constructor: Array(n) with one number n is an
\* array of n holes
ArrayOf(data) == IF Len(data) = 1 THEN Holes(data[1]) ELSE data

\* a watched operation that left the container holding c: config.after()
Intercepted(c, k) ==
    /\ contents' = c
    /\ notify(c, k)
    /\ UNCHANGED <<cfg, events, previousState, walk, value, rev, revId, usedIds, conflicts, changeSubscribers,
                   store, disposables, disposedSubs>>

\* the function the get trap returns for a watched method, called
Push(x, k) ==
    /\ Len(contents) < MaxLen
    /\ Intercepted(Append(contents, x), k)
    /\ last' = [op |-> "push", how |-> TrapOutcome(k)]

Pop(k) ==
    /\ Intercepted(ArrayPop(contents), k)
    /\ last' = [op |-> "pop", how |-> TrapOutcome(k)]

Shift(k) ==
    /\ Intercepted(ArrayShift(contents), k)
    /\ last' = [op |-> "shift", how |-> TrapOutcome(k)]

Unshift(x, k) ==
    /\ Len(contents) < MaxLen
    /\ Intercepted(<<x>> \o contents, k)
    /\ last' = [op |-> "unshift", how |-> TrapOutcome(k)]

Sort(k) ==
    /\ Intercepted(ArraySort(contents), k)
    /\ last' = [op |-> "sort", how |-> TrapOutcome(k)]

Reverse(k) ==
    /\ Intercepted(ArrayReverse(contents), k)
    /\ last' = [op |-> "reverse", how |-> TrapOutcome(k)]

\* splice(start, deleteCount, ...items) deleting del elements.  Before it
\* changes the array, Array.prototype.splice creates its result through the
\* species constructor, new Arr(del).  For del > 0 the constructor evaluates
\* super(...data) with data a number, a TypeError.  For del = 0 it returns a
\* second proxy, and splice assigning "length" to that proxy ends in its
\* subscriberFn(prop).  Either way the call throws with the array untouched
\* and without reaching config.after().
Splice(del) ==
    /\ del \in 0 .. Len(contents)
    /\ invoked' = <<>>
    /\ last' = [op |-> "splice",
                how |-> IF del > 0 THEN "notIterable" ELSE CallSubscriberFn]
    /\ UNCHANGED <<cfg, events, previousState, walk, value, contents, rev, revId, usedIds, conflicts,
                   changeSubscribers, scheduleQueue, schedulePending, microtask,
                   store, disposables, disposedSubs>>

\* the set trap of Arr: arr.length = n and arr[i] = x
SetLength(n, k) ==
    /\ n \in 0 .. MaxLen
    /\ Intercepted(ArraySetLength(contents, n), k)
    /\ last' = [op |-> "length", how |-> TrapOutcome(k)]

SetIndex(i, x, k) ==
    /\ i \in 0 .. (MaxLen - 1)
    /\ Intercepted(ArraySetIndex(contents, i, x), k)
    /\ last' = [op |-> "index", how |-> TrapOutcome(k)]

\* the set trap of Obj: obj[key] = x
ObjSet(key, x, k) ==
    /\ IF ObjWatched(key)
       THEN Intercepted([contents EXCEPT ![key] = x], k)
       ELSE /\ k = 0
            /\ contents' = [contents EXCEPT ![key] = x]
            /\ invoked' = <<>>
            /\ UNCHANGED <<cfg, events, previousState, walk, value, rev, revId, usedIds, conflicts,
                           changeSubscribers, scheduleQueue, schedulePending,
                           microtask, store, disposables, disposedSubs>>
    /\ last' = [op |-> "write", key |-> key, val |-> x,
                how |-> IF ObjWatched(key) THEN TrapOutcome(k) ELSE "returned"]

\* proxy.subscribe(s, autorun).  Unwatched, the get trap hands out the method
\* itself, which forwards to the Signal.  Watched, it hands out the function
\* that calls the method on the raw container, then config.after(), which is
\* notify() with s already registered, then subscriberFn(prop).
\* throws: the autorun call of s throws; k: the k-th callback notify() calls
\* throws (0: none).  An error thrown by subscribe() of the Signal leaves the
\* function before config.after().
ProxySubscribe(watched, s, autorun, throws, k) ==
    IF ~watched \/ throws \/ s \notin Subs
    THEN k = 0 /\ Subscribe(s, autorun, throws)
    ELSE LET fs == SetAdd(changeSubscribers, s)
             auto == IF autorun THEN <<[sub |-> s, val |-> Observed]>> ELSE <<>>
         IN  /\ changeSubscribers' = fs
             /\ disposedSubs' = disposedSubs \ {s}
             /\ IF cfg.scheduling
                THEN /\ k = 0
                     /\ invoked' = auto
                     /\ scheduleQueue' = SetAddAll(scheduleQueue, fs)
                     /\ IF ~schedulePending
                        THEN schedulePending' = TRUE /\ microtask' = TRUE
                        ELSE UNCHANGED <<schedulePending, microtask>>
                ELSE /\ k \in 0 .. Len(fs)
                     /\ invoked' = auto \o Deliver(fs, Observed, k)
                     /\ UNCHANGED <<scheduleQueue, schedulePending, microtask>>
             /\ last' = [op |-> "subscribe", how |-> TrapOutcome(k)]
             /\ UNCHANGED <<cfg, events, previousState, walk, value, contents, rev, revId, usedIds, conflicts,
                            store, disposables>>

ArrSubscribe(s, autorun, throws, k) ==
    ProxySubscribe(ArrWatched("subscribe"), s, autorun, throws, k)

ObjSubscribe(s, autorun, throws, k) ==
    ProxySubscribe(ObjWatched("subscribe"), s, autorun, throws, k)

\* a callback that has just been handed the value of the Arr's Signal calls
\* push(x) on what it was handed.  The Signal was made with new Signal(this,
\* options) inside the constructor, where this is the raw array, and the
\* Proxy is made afterwards: the call is Array.prototype.push on the raw
\* array, and no trap runs.
DeliveredPush(x) ==
    /\ invoked # <<>>
    /\ value = This
    /\ Len(contents) < MaxLen
    /\ contents' = Append(contents, x)
    /\ invoked' = <<>>
    /\ last' = [op |-> "deliveredPush", how |-> "returned"]
    /\ UNCHANGED <<cfg, events, previousState, walk, value, rev, revId, usedIds, conflicts,
                   changeSubscribers, scheduleQueue, schedulePending, microtask,
                   store, disposables, disposedSubs>>

\* --------------------------------------------- Watcher.watch in general
\* A proxy over a target that has a data property "p" and a method "m":
\*     m(x) { const old = this.p; this.p = x; return old; }
\* A member is { name, before, map, after }; names is the set of properties
\* its name (string, RegExp or function) accepts, and before, map, after say
\* which hooks it has (a string or RegExp member has none).  The hooks are
\* user code: in each operation at most one of them throws, t names it.

Props == {"m", "p"}
MemberConfigs == [names : (SUBSET Props) \ {{}}, before : BOOLEAN, map : BOOLEAN,
                  after : BOOLEAN]
\* the lists of members: two members are what it takes for a property to
\* have a first and a later match
MemberLists == UNION {[1 .. n -> MemberConfigs] : n \in 0 .. 2}
Throwers == {"none", "before", "map", "after", "onMatch"}

\* the map hook of the members: any function that is not the identity
MapFn(x) == (x % MaxElem) + 1

\* getWatcherConfig returning the last member that accepts prop
getWatcherConfig_Last(members, prop) ==
    IF \E i \in DOMAIN members : prop \in members[i].names
    THEN CHOOSE i \in DOMAIN members :
            /\ prop \in members[i].names
            /\ \A j \in (i + 1) .. Len(members) : prop \notin members[j].names
    ELSE 0

\* getWatcherConfig(prop): the index of the first member whose test accepts
\* prop, 0 for null
getWatcherConfig(members, prop) ==
    IF \E i \in DOMAIN members : prop \in members[i].names
    THEN CHOOSE i \in DOMAIN members :
            /\ prop \in members[i].names
            /\ \A j \in 1 .. (i - 1) : prop \notin members[j].names
    ELSE 0

\* one entry of invoked: hook "before", "map", "after" or "onMatch" of member
\* i called for prop with argument arg (Absent: none), or the underlying
\* operation ("apply": the method on the raw target, "call": the method
\* with the proxy as this, "set": Reflect.set)
Event(hook, prop, i, arg) == [hook |-> hook, prop |-> prop, member |-> i, arg |-> arg]

\* the traps with the call of before wrapped in a try that drops what it throws
TrapSteps_BeforeCaught(ws, c, prop, i, op, x, hookArg, t) ==
    LET m == ws.members[i]
        x1 == IF m.map THEN MapFn(x) ELSE x
        evBefore == IF m.before
                    THEN <<Event("before", prop, i, IF hookArg THEN x ELSE Absent)>>
                    ELSE <<>>
        evMap == evBefore \o (IF m.map THEN <<Event("map", prop, i, x)>> ELSE <<>>)
        c1 == [c EXCEPT !["p"] = x1]
        evOp == evMap \o <<Event(op, prop, i, x1)>>
        evAfter == evOp \o (IF m.after
                            THEN <<Event("after", prop, i, IF hookArg THEN x1 ELSE Absent)>>
                            ELSE <<>>)
        evMatch == evAfter \o <<Event("onMatch", prop, i, Absent)>>
        result == IF op = "apply" THEN c["p"] ELSE Absent
    IN  IF t = "map" THEN [c |-> c, ev |-> evMap, how |-> "hookThrew", result |-> Absent]
        ELSE IF t = "after" THEN [c |-> c1, ev |-> evAfter, how |-> "hookThrew", result |-> Absent]
        ELSE IF ~ws.subscriberFn
             THEN [c |-> c1, ev |-> evAfter, how |-> "typeError", result |-> Absent]
        ELSE IF t = "onMatch"
             THEN [c |-> c1, ev |-> evMatch, how |-> "hookThrew", result |-> Absent]
        ELSE [c |-> c1, ev |-> evMatch, how |-> "returned", result |-> result]

\* the steps both traps share once the member i is known.  c: the target
\* before; op: the underlying operation; x: the value assigned, or the
\* argument of the method; hookArg: whether before and after are handed the
\* value (set trap) or nothing (get trap).  The result is the target after,
\* the steps run, how the operation ended, and the value it returned.
TrapSteps(ws, c, prop, i, op, x, hookArg, t) ==
    LET m == ws.members[i]
        x1 == IF m.map THEN MapFn(x) ELSE x
        evBefore == IF m.before
                    THEN <<Event("before", prop, i, IF hookArg THEN x ELSE Absent)>>
                    ELSE <<>>
        evMap == evBefore \o (IF m.map THEN <<Event("map", prop, i, x)>> ELSE <<>>)
        c1 == [c EXCEPT !["p"] = x1]
        evOp == evMap \o <<Event(op, prop, i, x1)>>
        evAfter == evOp \o (IF m.after
                            THEN <<Event("after", prop, i, IF hookArg THEN x1 ELSE Absent)>>
                            ELSE <<>>)
        evMatch == evAfter \o <<Event("onMatch", prop, i, Absent)>>
        result == IF op = "apply" THEN c["p"] ELSE Absent
    IN  IF t = "before" THEN [c |-> c, ev |-> evBefore, how |-> "hookThrew", result |-> Absent]
        ELSE IF t = "map" THEN [c |-> c, ev |-> evMap, how |-> "hookThrew", result |-> Absent]
        ELSE IF t = "after" THEN [c |-> c1, ev |-> evAfter, how |-> "hookThrew", result |-> Absent]
        ELSE IF ~ws.subscriberFn
             THEN [c |-> c1, ev |-> evAfter, how |-> "typeError", result |-> Absent]
        ELSE IF t = "onMatch"
             THEN [c |-> c1, ev |-> evMatch, how |-> "hookThrew", result |-> Absent]
        ELSE [c |-> c1, ev |-> evMatch, how |-> "returned", result |-> result]

\* whether the hook t names exists, so that it can be the one that throws
CanThrow(ws, prop, t) ==
    LET i == getWatcherConfig(ws.members, prop)
    IN  \/ t = "none"
        \/ /\ i # 0
           /\ \/ t = "before" /\ ws.members[i].before
              \/ t = "map" /\ ws.members[i].map
              \/ t = "after" /\ ws.members[i].after
              \/ t = "onMatch" /\ ws.subscriberFn

\* the set trap: proxy.p = x
setTrap(ws, c, x, t) ==
    LET i == getWatcherConfig(ws.members, "p")
    IN  IF i = 0
        THEN [c |-> [c EXCEPT !["p"] = x], ev |-> <<Event("set", "p", 0, x)>>,
              how |-> "returned", result |-> Absent]
        ELSE TrapSteps(ws, c, "p", i, "set", x, TRUE, t)

\* the get trap for "m" and the call of what it returns: proxy.m(x).  With
\* no member for "m" it returns the method itself, which then runs with the
\* proxy as this, so that its assignment to p goes through the set trap.
callM(ws, c, x, t) ==
    LET i == getWatcherConfig(ws.members, "m")
    IN  IF i = 0
        THEN LET r == setTrap(ws, c, x, t)
             IN  [c |-> r.c, ev |-> <<Event("call", "m", 0, x)>> \o r.ev, how |-> r.how,
                  result |-> IF r.how = "returned" THEN c["p"] ELSE Absent]
        ELSE TrapSteps(ws, c, "m", i, "apply", x, FALSE, t)

WatchUnchanged ==
    UNCHANGED <<cfg, events, previousState, walk, value, rev, revId, usedIds, conflicts, changeSubscribers,
                scheduleQueue, schedulePending, microtask, store, disposables,
                disposedSubs>>

\* proxy.p = x
WatchSet(x, t) ==
    /\ CanThrow(cfg, "p", t)
    /\ LET r == setTrap(cfg, contents, x, t)
       IN  /\ contents' = r.c
           /\ invoked' = r.ev
           /\ last' = [op |-> "set", prop |-> "p", arg |-> x, how |-> r.how,
                       result |-> r.result, threw |-> t]
    /\ WatchUnchanged

\* proxy.m(x)
WatchCall(x, t) ==
    /\ CanThrow(cfg, IF getWatcherConfig(cfg.members, "m") = 0 THEN "p" ELSE "m", t)
    /\ LET r == callM(cfg, contents, x, t)
       IN  /\ contents' = r.c
           /\ invoked' = r.ev
           /\ last' = [op |-> "call", prop |-> "m", arg |-> x, how |-> r.how,
                       result |-> r.result, threw |-> t]
    /\ WatchUnchanged

\* proxy.p: the get trap hands out the value, which is not a function
WatchGet ==
    /\ invoked' = <<>>
    /\ last' = [op |-> "get", prop |-> "p", arg |-> Absent, how |-> "returned",
                result |-> contents["p"], threw |-> "none"]
    /\ UNCHANGED contents
    /\ WatchUnchanged

\* --------------------------------------------------------- the combinators
\* Signal.filter, Signal.map and Signal.combineLatest over two parent Signals
\* the caller made, without persistence, each with or without scheduling.
\* The variables of a Signal are here functions over the Signals: value[s] is
\* #value of s, and so on.  The child is new Signal(): no scheduling, and no
\* subscriber of its own.  filter and map take the first parent.  When the
\* child holds a list (combineLatest) value[Child] is This and contents the
\* list.  disposedSubs is {Callback} once child.dispose() has run; microtask
\* is the host's micro-task queue: the parents whose flush is pending, in
\* order.  last.late: the parents written since child.dispose().

Parents == <<"p1", "p2">>
Child == "c"
Callback == "cb"
ParentValues == {Undefined, JsNull, "a", "b"}
Kinds == {"filter", "map", "combineLatest"}

\* value == null
Nullish(v) == v \in {Undefined, JsNull}

\* the functions the caller hands to filter and to map
UserTest(v) == v = "a"
UserMap(v) == IF v = "a" THEN "b" ELSE "a"

\* the child as the callbacks see and leave it
ChildState == [value |-> value[Child], contents |-> contents, rev |-> rev[Child]]

\* child.value = x for a primitive x
childSet(ch, x) ==
    IF x = ch.value THEN ch ELSE [ch EXCEPT !.value = x, !.rev = @ + 1]

\* updateCombinedValue assigning the list whatever the parents hold
updateCombinedValue_NoNullTest(ch, vals) ==
    [value |-> This, contents |-> [i \in DOMAIN Parents |-> vals[Parents[i]]],
     rev |-> ch.rev + 1]

\* combineLatest: updateCombinedValue; the list is a new array each time, so
\* the assignment is never a no-op
updateCombinedValue(ch, vals) ==
    IF \E i \in DOMAIN Parents : Nullish(vals[Parents[i]])
    THEN ch
    ELSE [value |-> This, contents |-> [i \in DOMAIN Parents |-> vals[Parents[i]]],
          rev |-> ch.rev + 1]

\* the callback a combinator of kind k subscribes, called with v while the
\* Signals hold vals
callback(k, ch, v, vals) ==
    IF k = "filter" THEN (IF UserTest(v) THEN childSet(ch, v) ELSE ch)
    ELSE IF k = "map" THEN childSet(ch, UserMap(v))
    ELSE updateCombinedValue(ch, vals)

\* the parents a combinator of kind k subscribes to, in order
ParentsOf(k) == IF k = "combineLatest" THEN Parents ELSE <<Parents[1]>>

\* parent.subscribe(cb) for each parent of ps in turn: the autorun calls
RECURSIVE Autorun(_, _, _)
Autorun(k, ch, ps) ==
    IF ps = <<>> THEN ch
    ELSE Autorun(k,
                 IF Nullish(value[Head(ps)]) THEN ch
                 ELSE callback(k, ch, value[Head(ps)], value),
                 Tail(ps))

CombineUnchanged == UNCHANGED <<events, revId, usedIds, conflicts, store>>

\* Signal.filter(p1, test), Signal.map(p1, map), Signal.combineLatest(p1, p2)
Combine(k) ==
    /\ cfg.kind = "none"
    /\ cfg' = [cfg EXCEPT !.kind = k]
    /\ LET ch == Autorun(k, ChildState, ParentsOf(k))
       IN  /\ value' = [value EXCEPT ![Child] = ch.value]
           /\ contents' = ch.contents
           /\ rev' = [rev EXCEPT ![Child] = ch.rev]
    /\ changeSubscribers' =
          [p \in Range(Parents) |-> IF p \in Range(ParentsOf(k)) THEN {Callback} ELSE {}]
    /\ disposables' = Range(ParentsOf(k))
    /\ invoked' = [i \in 1 .. Cardinality({j \in DOMAIN ParentsOf(k) :
                                             ~Nullish(value[ParentsOf(k)[j]])}) |->
                      [sub |-> Callback]]
    /\ last' = [op |-> k, sig |-> Child, how |-> "returned", late |-> {}]
    /\ UNCHANGED <<previousState, walk, scheduleQueue, schedulePending, microtask,
                   disposedSubs>>
    /\ CombineUnchanged

\* p.value = v for a parent p
ParentSet(p, v) ==
    /\ rev[p] < MaxRev
    /\ IF v = value[p]
       THEN /\ invoked' = <<>>
            /\ last' = [op |-> "set", sig |-> p, how |-> "noop", late |-> last.late]
            /\ UNCHANGED <<value, contents, rev, scheduleQueue, schedulePending, microtask>>
       ELSE LET vals == [value EXCEPT ![p] = v]
                now == ~cfg.scheduling[p] /\ changeSubscribers[p] # {}
                ch == IF now THEN callback(cfg.kind, ChildState, v, vals) ELSE ChildState
            IN  /\ value' = [vals EXCEPT ![Child] = ch.value]
                /\ contents' = ch.contents
                /\ rev' = [rev EXCEPT ![p] = @ + 1, ![Child] = ch.rev]
                /\ IF cfg.scheduling[p] /\ changeSubscribers[p] # {}
                   THEN /\ scheduleQueue' = [scheduleQueue EXCEPT ![p] = @ \cup {Callback}]
                        /\ schedulePending' = [schedulePending EXCEPT ![p] = TRUE]
                        /\ microtask' = IF schedulePending[p] THEN microtask
                                        ELSE Append(microtask, p)
                   ELSE UNCHANGED <<scheduleQueue, schedulePending, microtask>>
                /\ invoked' = IF now THEN <<[sub |-> Callback]>> ELSE <<>>
                /\ last' = [op |-> "set", sig |-> p, how |-> "written",
                            late |-> IF disposedSubs # {} THEN last.late \cup {p}
                                     ELSE last.late]
    /\ UNCHANGED <<cfg, events, previousState, walk, changeSubscribers, disposables, disposedSubs>>
    /\ CombineUnchanged

\* the micro-task of the parent at the head of the host's queue
CombineFlush ==
    /\ microtask # <<>>
    /\ LET p == Head(microtask)
           ch == IF scheduleQueue[p] # {}
                 THEN callback(cfg.kind, ChildState, value[p], value)
                 ELSE ChildState
       IN  /\ value' = [value EXCEPT ![Child] = ch.value]
           /\ contents' = ch.contents
           /\ rev' = [rev EXCEPT ![Child] = ch.rev]
           /\ scheduleQueue' = [scheduleQueue EXCEPT ![p] = {}]
           /\ schedulePending' = [schedulePending EXCEPT ![p] = FALSE]
           /\ invoked' = IF scheduleQueue[p] # {} THEN <<[sub |-> Callback]>> ELSE <<>>
           /\ last' = [op |-> "flush", sig |-> p, how |-> "flushed", late |-> last.late]
    /\ microtask' = Tail(microtask)
    /\ UNCHANGED <<cfg, events, previousState, walk, changeSubscribers, disposables, disposedSubs>>
    /\ CombineUnchanged

\* child.dispose(): each disposable is () => parent.unsubscribe(callback)
ChildDispose ==
    /\ cfg.kind # "none"
    /\ changeSubscribers' = [p \in Range(Parents) |->
                                IF p \in disposables THEN {} ELSE changeSubscribers[p]]
    /\ disposables' = {}
    /\ disposedSubs' = {Callback}
    /\ invoked' = <<>>
    /\ last' = [op |-> "dispose", sig |-> Child, how |-> "disposed", late |-> last.late]
    /\ UNCHANGED <<cfg, events, previousState, walk, value, contents, rev, scheduleQueue, schedulePending, microtask>>
    /\ CombineUnchanged

\* --------------------------------------------------------- the diffing Arr
\* The Arr of src/Obj.js whose subscribe() wraps the subscriber in a function
\* (changeComputer) that computes { added, removed, moved } against
\* #previousState.  Its members are those of Arr, and 'subscribe' is not
\* among them: arr.subscribe is the method itself, called with the proxy as
\* this.  changeComputer is an arrow function, so its this is the this of
\* that call.  A Proxy has no private members: with this the proxy,
\* this.#diff throws a TypeError.  The raw Arr is the value of the Signal
\* (arr[Signal.Symbol].value); subscribe() called on it has working private
\* members.  changeSubscribers holds [sub, via]: the changeComputer made for
\* subscriber sub by subscribe() called via "proxy" or via "raw".  The Signal
\* is a default one, and the subscribers are functions that return.

DiffElems == 1 .. MaxDiffElem
Vias == {"proxy", "raw"}

\* Array.prototype.indexOf, counted from 0
IndexOf(a, x) ==
    IF x \in Range(a)
    THEN (CHOOSE i \in DOMAIN a : a[i] = x /\ \A j \in 1 .. (i - 1) : a[j] # x) - 1
    ELSE -1

\* #diff(oldArray, newArray)
diff(oldArray, newArray) ==
    LET added == SelectSeq(newArray, LAMBDA x : x \notin Range(oldArray))
        removed == SelectSeq(oldArray, LAMBDA x : x \notin Range(newArray))
        at == SelectSeq([i \in 1 .. Len(newArray) |-> i],
                        LAMBDA i : /\ IndexOf(oldArray, newArray[i]) # -1
                                   /\ IndexOf(oldArray, newArray[i]) # i - 1
                                   /\ newArray[i] \notin Range(added))
    IN  [added |-> added,
         removed |-> removed,
         moved |-> [n \in DOMAIN at |-> [item |-> newArray[at[n]],
                                         from |-> IndexOf(oldArray, newArray[at[n]]),
                                         to |-> at[n] - 1]]]

\* the changeComputers fs called in turn with the array holding c, as notify()
\* does: the snapshot they leave, the calls of subscribers they make, and how
\* the loop ends
RECURSIVE changeComputer(_, _, _)
changeComputer(fs, prev, c) ==
    IF fs = <<>> THEN [prev |-> prev, ev |-> <<>>, how |-> "returned"]
    ELSE IF Head(fs).via = "proxy"
         THEN [prev |-> prev, ev |-> <<>>, how |-> "privateTypeError"]
         ELSE LET r == changeComputer(Tail(fs), c, c)
              IN  [prev |-> r.prev,
                   ev |-> <<[sub |-> Head(fs).sub, changes |-> diff(prev, c)]>> \o r.ev,
                   how |-> r.how]

DiffUnchanged ==
    UNCHANGED <<cfg, events, walk, value, rev, revId, usedIds, conflicts, scheduleQueue,
                schedulePending, microtask, store, disposables, disposedSubs>>

\* a watched operation that left the array holding c: config.after() is
\* notify(), then subscriberFn(prop)
DiffIntercepted(op, c) ==
    LET r == changeComputer(changeSubscribers, previousState, c)
    IN  /\ contents' = c
        /\ previousState' = r.prev
        /\ invoked' = r.ev
        /\ last' = [op |-> op, how |-> IF r.how = "returned" THEN CallSubscriberFn ELSE r.how,
                    subs |-> Len(changeSubscribers)]
        /\ UNCHANGED changeSubscribers
        /\ DiffUnchanged

DiffPush(x) ==
    /\ Len(contents) < MaxDiffLen
    /\ DiffIntercepted("push", Append(contents, x))

DiffPop == DiffIntercepted("pop", ArrayPop(contents))

DiffReverse == DiffIntercepted("reverse", ArrayReverse(contents))

\* subscribe(s, autorun) called on the proxy or on the raw Arr.  The value
\* of the Signal is the Arr, never null: with autorun the changeComputer is
\* called before it is added
DiffSubscribe(s, autorun, via) ==
    /\ \A i \in DOMAIN changeSubscribers : changeSubscribers[i].sub # s
    /\ LET f == [sub |-> s, via |-> via]
           r == IF autorun THEN changeComputer(<<f>>, previousState, contents)
                ELSE [prev |-> previousState, ev |-> <<>>, how |-> "returned"]
       IN  /\ previousState' = r.prev
           /\ invoked' = r.ev
           /\ changeSubscribers' = IF r.how = "returned" THEN Append(changeSubscribers, f)
                                   ELSE changeSubscribers
           /\ last' = [op |-> "subscribe", how |-> r.how, subs |-> Len(changeSubscribers)]
    /\ UNCHANGED contents
    /\ DiffUnchanged

\* the function subscribe() returned for s, called
DiffUnsubscribe(s) ==
    /\ changeSubscribers' = SelectSeq(changeSubscribers, LAMBDA f : f.sub # s)
    /\ invoked' = <<>>
    /\ last' = [op |-> "unsubscribe", how |-> "returned", subs |-> Len(changeSubscribers)]
    /\ UNCHANGED <<contents, previousState>>
    /\ DiffUnchanged

\* -------------------------------------------------------------- the Builder
\* Builder.create(target, pathExpression, options) of src/Builder.js.  A path
\* expression is the list of the pieces between its '/', taken from
\* RawSegments ("" is the piece before a leading '/').  contents
\* is the tree under the target: a function from the paths of property names
\* to [id, kind], id the order of creation (the identity of the node) and kind
\* "Obj" or "Arr" for the proxies the default factories make, "object" or
\* "array" for the plain containers of factories the caller passes.
\* cfg.root is the kind of the target and cfg.factories which factories
\* the options hold.

RawSegments == {"P", "x", "x.arr", "0"}
\* '', '/P' and the expressions of 1 .. MaxPath pieces that are not empty
PathExpressions ==
    {<<"">>, <<"", "P">>} \cup UNION {[1 .. n -> RawSegments] : n \in 1 .. MaxPath}
NodeKinds == {"Obj", "Arr", "object", "array"}

\* segment.split('.')[0]
KeyOf(segment) == IF segment = "x.arr" THEN "x" ELSE segment
\* segment.endsWith('.arr')
EndsWithArr(segment) == segment = "x.arr"

\* parsePath(pathExpression): key and isArray of every non-empty segment
parsePath(expr) ==
    LET segments == SelectSeq(expr, LAMBDA g : g # "")
    IN  [i \in DOMAIN segments |-> [key |-> KeyOf(segments[i]),
                                    isArray |-> EndsWithArr(segments[i])]]

\* validateInputs: the expression is not the empty string (the characters of
\* RawSegments are all valid)
validateInputs(expr) == expr # <<"">>

\* the property name parseInt(key) selects on an array
ParseInt(key) == IF key = "0" THEN "0" ELSE "NaN"

\* Array.isArray(device), true for the proxy of an Arr too
IsArray(kind) == kind \in {"Arr", "array"}

\* options.arrayFactory() / options.objectFactory()
Factory(isArray) ==
    IF cfg.factories = "default" THEN (IF isArray THEN "Arr" ELSE "Obj")
    ELSE (IF isArray THEN "array" ELSE "object")

\* how device[property] = node ends on a device of this kind: a plain
\* container stores it; the set trap of an Obj or an Arr stores it and, for
\* a watched property, ends in subscriberFn(prop)
AssignOutcome(kind, property) ==
    IF \/ kind = "Obj" /\ ObjWatched(property)
       \/ kind = "Arr" /\ property = "0" /\ ArrWatched("index")
    THEN CallSubscriberFn
    ELSE "returned"

KindAt(tree, at) == IF at = <<>> THEN cfg.root ELSE tree[at].kind

\* the reduce over the segments, from the device at the path at: the tree it
\* leaves, how it ends and the path of the node it returns
RECURSIVE reduce(_, _, _)
reduce(tree, at, segments) ==
    IF segments = <<>> THEN [tree |-> tree, how |-> "returned", node |-> at]
    ELSE LET kind == KindAt(tree, at)
             property == IF IsArray(kind) THEN ParseInt(Head(segments).key)
                         ELSE Head(segments).key
             to == Append(at, property)
         IN  IF to \in DOMAIN tree
             THEN reduce(tree, to, Tail(segments))
             ELSE LET made == [id |-> Cardinality(DOMAIN tree) + 1,
                               kind |-> Factory(Head(segments).isArray)]
                      grown == [q \in DOMAIN tree \cup {to} |->
                                   IF q = to THEN made ELSE tree[q]]
                  IN  IF AssignOutcome(kind, property) = "returned"
                      THEN reduce(grown, to, Tail(segments))
                      ELSE [tree |-> grown, how |-> AssignOutcome(kind, property),
                            node |-> <<>>]

BuilderUnchanged ==
    UNCHANGED <<cfg, events, previousState, walk, value, rev, revId, usedIds, conflicts,
                changeSubscribers, scheduleQueue, schedulePending, microtask, store,
                disposables, disposedSubs, invoked>>

\* Builder.create(root, expr) or Builder.create(root, expr, options)
Create(expr) ==
    /\ Cardinality(DOMAIN contents) + Len(parsePath(expr)) <= MaxNodes
    /\ IF validateInputs(expr)
       THEN LET r == reduce(contents, <<>>, parsePath(expr))
            IN  /\ contents' = r.tree
                /\ last' = [op |-> "create", expr |-> expr, how |-> r.how, node |-> r.node,
                            again |-> last.op = "create" /\ last.expr = expr]
       ELSE /\ UNCHANGED contents
            /\ last' = [op |-> "create", expr |-> expr, how |-> "invalid", node |-> <<>>,
                        again |-> last.op = "create" /\ last.expr = expr]
    /\ BuilderUnchanged

\* --------------------------------------------------------------- the Walker
\* Walker.walk(data) of src/Walker.js on a graph of containers (plain objects
\* or arrays: the four _walk methods have the same shape).  cfg.graph gives
\* each container the list of its children, each the primitive Prim or a
\* container, so that a container may hold itself; the root is container 1.
\* A value is an entry [t, n]: "prim" a primitive of the input, "repl" a
\* primitive the visitor returned, "src" the container n of the input, "ref"
\* the container walk made for n (visited.get(n)).  walk.stack is the call
\* stack: one frame [node, i, visit] for every _walkValue that is looping
\* over a container, i the position of the loop and visit whether the visitor
\* is still to be called with the result (depth first); walk.visited maps a
\* container to what its result holds so far; walk.returned is <<>> until
\* walk returns, then the one value returned.

WalkNodes == 1 .. MaxNode
Prim == 0
ChildLists == UNION {[1 .. n -> {Prim} \cup WalkNodes] : n \in 0 .. 2}
Graphs == [WalkNodes -> ChildLists]
\* visitors: the default one; one that replaces every primitive by another;
\* one that replaces every primitive by the root container; one that
\* replaces every container but the root by a primitive
Visitors == {"default", "leaves", "toRoot", "prune"}

Entry(t, n) == [t |-> t, n |-> n]
SourceEntry(c) == IF c = Prim THEN Entry("prim", 0) ELSE Entry("src", c)

\* this.visitor(key, value, parent, path, isLeaf, isRoot): <<>> for undefined
visitor(e, isRoot) ==
    IF cfg.visitor = "leaves" /\ e.t = "prim" THEN <<Entry("repl", 0)>>
    ELSE IF cfg.visitor = "toRoot" /\ e.t = "prim" THEN <<Entry("src", 1)>>
    ELSE IF cfg.visitor = "prune" /\ e.t \in {"src", "ref"} /\ ~isRoot
    THEN <<Entry("repl", 0)>>
    ELSE <<>>

\* a _processNode returning e: to the loop of the frame on top, which stores
\* it and moves on, or to walk()
Return(w, e) ==
    IF w.stack = <<>> THEN [w EXCEPT !.returned = <<e>>]
    ELSE LET top == w.stack[Len(w.stack)]
         IN  [w EXCEPT !.visited[top.node] = Append(@, e),
                       !.stack[Len(w.stack)].i = @ + 1]

\* _walkArray / _walkObject up to the loop: visited.set(n, result)
Enter(w, n, visit) ==
    [w EXCEPT !.visited = [m \in DOMAIN w.visited \cup {n} |->
                              IF m = n THEN <<>> ELSE w.visited[m]],
              !.stack = Append(@, [node |-> n, i |-> 1, visit |-> visit])]

\* what _walkValue returns for a value it does not loop over
Walked(e) == IF e.t = "src" THEN Entry("ref", e.n) ELSE e

\* _walkValue without the test visited.has(value)
Loops_NoVisitedTest(w, e) == e.t = "src"

\* _walkValue: whether it walks the children of the value: the value is a
\* container and visited does not have it
Loops(w, e) == e.t = "src" /\ e.n \notin DOMAIN w.visited

\* _walkValue(value, path, visited)
walkValue(w, e, visit) ==
    IF Loops(w, e) THEN Enter(w, e.n, visit) ELSE Return(w, Walked(e))

\* _processNode after the visitor returned r: pv is the value otherwise
\* returned
Replaced(w, r, pv) ==
    IF r # <<>>
    THEN (IF cfg.walkReplacements THEN walkValue(w, r[1], FALSE) ELSE Return(w, r[1]))
    ELSE Return(w, pv)

\* _processNode(key, value, ...) up to its return or to the first loop it
\* enters.  Depth first, the visitor is called with what _walkValue returned,
\* at once when that is not a loop, at WalkReturn otherwise.
processNode(w, e, isRoot) ==
    IF cfg.depthFirst
    THEN IF Loops(w, e)
         THEN Enter(w, e.n, TRUE)
         ELSE Replaced(w, visitor(Walked(e), isRoot), Walked(e))
    ELSE LET r == visitor(e, isRoot)
         IN  IF r # <<>>
             THEN (IF cfg.walkReplacements THEN walkValue(w, r[1], FALSE)
                   ELSE Return(w, r[1]))
             ELSE walkValue(w, e, FALSE)

WalkUnchanged ==
    UNCHANGED <<cfg, events, previousState, value, contents, rev, revId, usedIds, conflicts,
                changeSubscribers, scheduleQueue, schedulePending, microtask, store,
                disposables, disposedSubs, invoked>>

\* walk(data)
WalkStart ==
    /\ ~walk.started
    /\ walk' = processNode([walk EXCEPT !.started = TRUE], Entry("src", 1), TRUE)
    /\ last' = [op |-> "walk", how |-> "called", back |-> FALSE]
    /\ WalkUnchanged

\* one turn of the loop on top of the stack: _processNode for the next child
WalkChild ==
    /\ walk.started /\ walk.stack # <<>>
    /\ LET top == walk.stack[Len(walk.stack)]
       IN  /\ top.i <= Len(cfg.graph[top.node])
           /\ walk' = processNode(walk, SourceEntry(cfg.graph[top.node][top.i]), FALSE)
           /\ last' = [op |-> "child", how |-> "called",
                       back |-> cfg.graph[top.node][top.i] \in DOMAIN walk.visited]
    /\ WalkUnchanged

\* the loop on top of the stack is over: _walkValue returns the container,
\* and _processNode, depth first, calls the visitor with it
WalkReturn ==
    /\ walk.started /\ walk.stack # <<>>
    /\ LET top == walk.stack[Len(walk.stack)]
           w == [walk EXCEPT !.stack = SubSeq(@, 1, Len(@) - 1)]
           pv == Entry("ref", top.node)
       IN  /\ top.i > Len(cfg.graph[top.node])
           /\ walk' = IF top.visit THEN Replaced(w, visitor(pv, w.stack = <<>>), pv)
                      ELSE Return(w, pv)
           /\ last' = [op |-> "return", how |-> "returned", back |-> FALSE]
    /\ WalkUnchanged

\* ------------------------------------------------------------ construction

Configs == [scheduling : BOOLEAN, persistence : BOOLEAN, conflicting : ConflictingOptions]

\* the configuration new Signal(value) gets from the defaults: neither
\* persistence nor scheduling, and no option "conflicting"
DefaultConfig == [scheduling |-> FALSE, persistence |-> FALSE, conflicting |-> <<>>]

\* The states new Signal(v, c), c among cs and v among vs, returns in; c: the
\* contents of the container when v refers to one.  With persistence,
\* initializePersistence() throws on an empty store (JSON.stringify(this)) and
\* otherwise calls sync() with the stored envelope, whose set() throws as
\* well unless it is a no-op.
ConstructOver(cs, vs, c) ==
    /\ cfg \in cs
    /\ value \in vs
    /\ contents = c
    /\ rev = 1
    /\ revId \in RevIds
    /\ usedIds = {revId}
    /\ changeSubscribers = <<>>
    /\ scheduleQueue = <<>>
    /\ schedulePending = FALSE
    /\ microtask = FALSE
    /\ disposedSubs = {}
    /\ invoked = <<>>
    /\ last = [op |-> "new", how |-> "constructed"]
    /\ IF cfg.persistence
       THEN /\ store \in StoredEnvelopes
            /\ LET rec == [rev |-> store.rev, revId |-> store.revId, value |-> Undefined]
               IN  /\ Accepts(rec) => value = Undefined
                   /\ conflicts = IF rec.rev = rev THEN Trim(<<rec>>) ELSE <<>>
            /\ disposables = ListenerDisposables(cfg) \cup {"removeItem"}
       ELSE /\ store = Null
            /\ conflicts = <<>>
            /\ disposables = ListenerDisposables(cfg)

\* new Signal(v, c) with v a primitive value
Construct(cs) ==
    ConstructOver(cs, Values, Null) /\ previousState = <<>> /\ walk = NoWalk /\ events = <<>>

\* --------------------------------------------------------- specifications
\* The revision variables (rev, revId, usedIds, conflicts, store) and the
\* notification variables (changeSubscribers, scheduleQueue, schedulePending,
\* microtask) meet only in value, so the reachable states are nearly the
\* product of the two.  Each specification explores one side in full and
\* keeps the other small.

\* Spec: the revision and merge protocol, delivery immediate or scheduled,
\* with one callback.
Init == Construct(Configs)

Next ==
    \/ \E v \in Values, r \in RevArgs, bump \in BOOLEAN, k \in 0 .. 1, id \in RevIds :
          Set(v, r, bump, k, id)
    \/ \E rec \in RemoteRecords, k \in 0 .. 1, id \in RevIds : Sync(rec, k, id)
    \/ \E autorun \in BOOLEAN, throws \in BOOLEAN : Subscribe(1, autorun, throws)
    \/ \E k \in 0 .. 1 : Flush(k)
    \/ Dispose

Spec == Init /\ [][Next]_vars

\* SpecNotify: the notification pipeline with NumSubs callbacks, without
\* persistence; the writes are set(v) and set(v, _, false).
InitNotify == Construct({c \in Configs : c.conflicting = <<>> /\ ~c.persistence})

NextNotify ==
    \/ \E v \in Values, bump \in BOOLEAN, k \in 0 .. NumSubs, id \in RevIds :
          Set(v, NoRev, bump, k, id)
    \/ \E s \in Subs, autorun \in BOOLEAN, throws \in BOOLEAN : Subscribe(s, autorun, throws)
    \/ \E s \in Subs : Unsubscribe(s)
    \/ \E k \in 0 .. NumSubs : Notify(k)
    \/ \E k \in 0 .. NumSubs : Flush(k)
    \/ Dispose

SpecNotify == InitNotify /\ [][NextNotify]_vars

\* SpecWrite: every call but sync(), with every argument of set(), on a
\* Signal with or without persistence and scheduling, with one callback.
InitWrite == Construct({c \in Configs : c.conflicting = <<>>})

NextWrite ==
    \/ \E v \in Values, r \in RevArgs, bump \in BOOLEAN, k \in 0 .. 1, id \in RevIds :
          Set(v, r, bump, k, id)
    \/ \E autorun \in BOOLEAN, throws \in BOOLEAN : Subscribe(1, autorun, throws)
    \/ Unsubscribe(1)
    \/ \E k \in 0 .. 1 : Notify(k)
    \/ \E k \in 0 .. 1 : Flush(k)
    \/ Dispose

SpecWrite == InitWrite /\ [][NextWrite]_vars

\* SpecDefault: new Signal() with the default configuration, receiving merges
\* of its own revision with a lower revisionId and no value, which is what a
\* storage event delivers (sync() reads "value", the envelope carries "val").
InitDefault == Construct({DefaultConfig}) /\ value = Undefined

NextDefault ==
    \E rec \in RemoteRecords :
        /\ rec.rev = rev /\ rec.revId < revId /\ rec.value = Undefined
        /\ SyncUpTo(rec, 0, revId, maxConflicting + MaxOverflow)

SpecDefault == InitDefault /\ [][NextDefault]_vars

\* SpecMerge: merges arriving at a Signal created with { conflicting: 1 } that
\* is written locally, with one callback subscribed without autorun; the
\* writes are set(v).
InitMerge == Construct({c \in Configs : c.conflicting = <<1>>})

NextMerge ==
    \/ \E v \in Values, k \in 0 .. 1, id \in RevIds : Set(v, NoRev, TRUE, k, id)
    \/ \E rec \in RemoteRecords, k \in 0 .. 1, id \in RevIds : Sync(rec, k, id)
    \/ Subscribe(1, FALSE, FALSE)
    \/ \E k \in 0 .. 1 : Flush(k)

SpecMerge == InitMerge /\ [][NextMerge]_vars

\* SpecDispose: the life of a Signal, with or without persistence and
\* scheduling, up to and after dispose(): writes set(v), one callback,
\* disposables added by the caller.
InitDispose == Construct({c \in Configs : c.conflicting = <<>>})

NextDispose ==
    \/ \E v \in Values, k \in 0 .. 1, id \in RevIds : Set(v, NoRev, TRUE, k, id)
    \/ \E autorun \in BOOLEAN, throws \in BOOLEAN : Subscribe(1, autorun, throws)
    \/ \E d \in UserDisposables : AddDisposable(d)
    \/ \E k \in 0 .. 1 : Flush(k)
    \/ Dispose

SpecDispose == InitDispose /\ [][NextDispose]_vars

\* SpecSubscribe: the subscriber set of a Signal without persistence whose
\* value may be null, written with set(v, null, false); subscribe() is called
\* with callbacks and with an argument that is not a function.
InitSubscribe ==
    /\ ConstructOver({c \in Configs : c.conflicting = <<>> /\ ~c.persistence},
                     Values \cup {JsNull}, Null)
    /\ previousState = <<>>
    /\ events = <<>>
    /\ walk = NoWalk

NextSubscribe ==
    \/ \E v \in Values \cup {JsNull}, k \in 0 .. NumSubs : Set(v, NoRev, FALSE, k, revId)
    \/ \E s \in Subs \cup {NotAFunction}, autorun \in BOOLEAN, throws \in BOOLEAN :
          Subscribe(s, autorun, throws)
    \/ \E s \in Subs : Unsubscribe(s)
    \/ \E k \in 0 .. NumSubs : Notify(k)
    \/ \E k \in 0 .. NumSubs : Flush(k)
    \/ Dispose

SpecSubscribe == InitSubscribe /\ [][NextSubscribe]_vars

\* SpecReentrant: a Signal with scheduling and without persistence whose
\* callbacks may write to it while the flush is calling them; writes set(v).
InitReentrant ==
    Construct({c \in Configs : c.scheduling /\ ~c.persistence /\ c.conflicting = <<>>})

NextReentrant ==
    \/ \E v \in Values, id \in RevIds : Set(v, NoRev, TRUE, 0, id)
    \/ \E s \in Subs, autorun \in BOOLEAN : Subscribe(s, autorun, FALSE)
    \/ \E s \in Subs : Unsubscribe(s)
    \/ \E k \in 0 .. NumSubs : Flush(k)
    \/ \E j \in 1 .. NumSubs, v \in Values, id \in RevIds : FlushWrite(j, v, id)

SpecReentrant == InitReentrant /\ [][NextReentrant]_vars

\* SpecSync: a Signal made with { synchronization: true, conflicting: 1 },
\* with or without persistence and scheduling, written locally with set(v)
\* and receiving storage events for its key, before and after dispose(); one
\* callback.
SyncConfigs ==
    [scheduling : BOOLEAN, persistence : BOOLEAN, conflicting : {<<1>>},
     synchronization : {TRUE}]

InitSync == Construct(SyncConfigs)

NextSync ==
    \/ \E v \in Values, k \in 0 .. 1, id \in RevIds : Set(v, NoRev, TRUE, k, id)
    \/ \E env \in Envelopes, k \in 0 .. 1, id \in RevIds : StorageEvent(env, k, id)
    \/ StorageRemoved
    \/ Subscribe(1, FALSE, FALSE)
    \/ \E k \in 0 .. 1 : Flush(k)
    \/ Dispose

SpecSync == InitSync /\ [][NextSync]_vars

\* SpecPair: Signals A and B with persistence and synchronization on one
\* key.  Each constructor found an envelope of another writer in the store
\* (on an empty store the constructor throws) and called sync() with it.
PairConfig ==
    [scheduling |-> FALSE, persistence |-> TRUE, conflicting |-> <<>>,
     synchronization |-> TRUE]

InitPair ==
    /\ cfg = PairConfig
    /\ store \in StoredEnvelopes
    /\ rev = [p \in Peers |-> 1]
    /\ revId \in [Peers -> RevIds]
    /\ usedIds = [p \in Peers |-> {revId[p]}]
    /\ value \in [Peers -> Values]
    /\ LET rec == fromEnvelope(store)
       IN  /\ \A p \in Peers : PeerAccepts(p, rec) => value[p] = Undefined
           /\ conflicts = [p \in Peers |-> IF rec.rev = rev[p] THEN <<rec>> ELSE <<>>]
    /\ disposables = [p \in Peers |-> ListenerDisposables(cfg) \cup {"removeItem"}]
    /\ events = <<>>
    /\ contents = Null
    /\ previousState = <<>>
    /\ walk = NoWalk
    /\ changeSubscribers = <<>>
    /\ scheduleQueue = <<>>
    /\ schedulePending = FALSE
    /\ microtask = FALSE
    /\ disposedSubs = {}
    /\ invoked = <<>>
    /\ last = [op |-> "new", sig |-> "B", how |-> "constructed"]

NextPair ==
    \/ \E p \in Peers, v \in Values, id \in RevIds : PeerSet(p, v, id)
    \/ \E p \in Peers : PeerDispose(p)
    \/ PeerDispatch

SpecPair == InitPair /\ [][NextPair]_vars

\* SpecWatch: Watcher.watch(target, members, subscriberFn) for every list of
\* at most two members, with and without subscriberFn, on a target without p.
InitWatch ==
    /\ cfg \in [members : MemberLists, subscriberFn : BOOLEAN]
    /\ value = This
    /\ contents = [p |-> Absent]
    /\ previousState = <<>>
    /\ events = <<>>
    /\ walk = NoWalk
    /\ rev = 1
    /\ revId = 1
    /\ usedIds = {1}
    /\ conflicts = <<>>
    /\ changeSubscribers = <<>>
    /\ scheduleQueue = <<>>
    /\ schedulePending = FALSE
    /\ microtask = FALSE
    /\ store = Null
    /\ disposables = {}
    /\ disposedSubs = {}
    /\ invoked = <<>>
    /\ last = [op |-> "new", how |-> "constructed"]

NextWatch ==
    \/ \E x \in Elems, t \in Throwers : WatchSet(x, t)
    \/ \E x \in Elems, t \in Throwers : WatchCall(x, t)
    \/ WatchGet

SpecWatch == InitWatch /\ [][NextWatch]_vars

\* SpecCombine: two parent Signals, any values, with and without scheduling;
\* one combinator made over them, the parents written, the child disposed.
InitCombine ==
    /\ cfg \in [kind : {"none"}, scheduling : [Range(Parents) -> BOOLEAN]]
    /\ value \in {f \in [Range(Parents) \cup {Child} -> ParentValues] : f[Child] = Undefined}
    /\ contents = <<>>
    /\ previousState = <<>>
    /\ events = <<>>
    /\ walk = NoWalk
    /\ rev = [s \in Range(Parents) \cup {Child} |-> 1]
    /\ revId = 1
    /\ usedIds = {1}
    /\ conflicts = <<>>
    /\ changeSubscribers = [p \in Range(Parents) |-> {}]
    /\ scheduleQueue = [p \in Range(Parents) |-> {}]
    /\ schedulePending = [p \in Range(Parents) |-> FALSE]
    /\ microtask = <<>>
    /\ store = Null
    /\ disposables = {}
    /\ disposedSubs = {}
    /\ invoked = <<>>
    /\ last = [op |-> "new", sig |-> Child, how |-> "constructed", late |-> {}]

NextCombine ==
    \/ \E k \in Kinds : Combine(k)
    \/ \E p \in Range(Parents), v \in ParentValues : ParentSet(p, v)
    \/ CombineFlush
    \/ ChildDispose

SpecCombine == InitCombine /\ [][NextCombine]_vars

\* SpecDiff: new Arr(data) of the diffing variant, with subscribers added
\* through the proxy and through the raw Arr.
DiffData == {<<>>, <<1, 1>>, <<1, 2>>}

InitDiff ==
    \E data \in DiffData :
        /\ ConstructOver({DefaultConfig}, {This}, ArrayOf(data))
        /\ previousState = ArrayOf(data)
        /\ events = <<>>
        /\ walk = NoWalk

NextDiff ==
    \/ \E x \in DiffElems : DiffPush(x)
    \/ DiffPop
    \/ DiffReverse
    \/ \E s \in Subs, autorun \in BOOLEAN, via \in Vias : DiffSubscribe(s, autorun, via)
    \/ \E s \in Subs : DiffUnsubscribe(s)

SpecDiff == InitDiff /\ [][NextDiff]_vars

\* SpecArr: new Arr(data, options) without persistence, its mutators called
\* through the proxy, and the callbacks of its Signal.
ArrData == UNION {[1 .. n -> Elems] : n \in 0 .. MaxLen}

InitArr ==
    \E data \in ArrData :
        /\ ConstructOver({c \in Configs : c.conflicting = <<>> /\ ~c.persistence},
                         {This}, ArrayOf(data))
        /\ previousState = <<>>
        /\ events = <<>>
        /\ walk = NoWalk

NextArr ==
    \/ \E x \in Elems, k \in 0 .. NumSubs : Push(x, k) \/ Unshift(x, k)
    \/ \E k \in 0 .. NumSubs : Pop(k) \/ Shift(k) \/ Sort(k) \/ Reverse(k)
    \/ \E del \in 0 .. MaxLen : Splice(del)
    \/ \E n \in 0 .. MaxLen, k \in 0 .. NumSubs : SetLength(n, k)
    \/ \E i \in 0 .. (MaxLen - 1), x \in Elems, k \in 0 .. NumSubs : SetIndex(i, x, k)
    \/ \E s \in Subs, autorun \in BOOLEAN, throws \in BOOLEAN :
          ArrSubscribe(s, autorun, throws, 0)
    \/ \E s \in Subs : Unsubscribe(s)
    \/ \E k \in 0 .. NumSubs : Flush(k)

SpecArr == InitArr /\ [][NextArr]_vars

\* SpecDelivered: an Arr whose callbacks push to the value they are handed.
NextDelivered ==
    \/ \E x \in Elems, k \in 0 .. NumSubs : Push(x, k)
    \/ \E k \in 0 .. NumSubs : Pop(k)
    \/ \E s \in Subs, autorun \in BOOLEAN : ArrSubscribe(s, autorun, FALSE, 0)
    \/ \E k \in 0 .. NumSubs : Flush(k)
    \/ \E x \in Elems : DeliveredPush(x)

SpecDelivered == InitArr /\ [][NextDelivered]_vars

\* SpecObj: new Obj(data, options) without persistence, written through the
\* proxy.  Object.apply(this, data) calls Object() with no arguments and
\* copies nothing: the Obj starts without entries whatever data is.
InitObj ==
    /\ ConstructOver({c \in Configs : c.conflicting = <<>> /\ ~c.persistence},
                     {This}, [key \in Keys |-> Absent])
    /\ previousState = <<>>
    /\ events = <<>>
    /\ walk = NoWalk

NextObj ==
    \/ \E key \in Keys, x \in Elems, k \in 0 .. NumSubs : ObjSet(key, x, k)
    \/ \E s \in Subs, autorun \in BOOLEAN, throws \in BOOLEAN, k \in 0 .. NumSubs :
          ObjSubscribe(s, autorun, throws, k)
    \/ \E s \in Subs : Unsubscribe(s)
    \/ \E k \in 0 .. NumSubs : Flush(k)

SpecObj == InitObj /\ [][NextObj]_vars

\* SpecObjData: new Obj(data, options) for a data object with any of the keys,
\* written through the proxy.  cfg.data is the first argument of the
\* constructor.
ObjData == [Keys -> {Absent, 1}]

\* Object.apply(this, data): Function.prototype.apply takes its arguments from
\* the indices 0 .. data.length - 1 of data, of which a plain object has none;
\* Object() then returns a new empty object, which the constructor drops.
\* entries: those of this; the result: those of this afterwards
ObjectApply(entries, data) == entries

InitObjData ==
    /\ ConstructOver([scheduling : BOOLEAN, persistence : {FALSE}, conflicting : {<<>>},
                      data : ObjData],
                     {This}, ObjectApply([key \in Keys |-> Absent], cfg.data))
    /\ previousState = <<>>
    /\ events = <<>>
    /\ walk = NoWalk

SpecObjData == InitObjData /\ [][NextObj]_vars

\* SpecBuilder: Builder.create called again and again on one target, an Obj
\* or a plain object, with the default factories or with factories for plain
\* containers.
InitBuilder ==
    /\ cfg \in [root : {"Obj", "object"}, factories : {"default", "plain"}]
    /\ value = This
    /\ contents = <<>>
    /\ previousState = <<>>
    /\ events = <<>>
    /\ walk = NoWalk
    /\ rev = 1
    /\ revId = 1
    /\ usedIds = {1}
    /\ conflicts = <<>>
    /\ changeSubscribers = <<>>
    /\ scheduleQueue = <<>>
    /\ schedulePending = FALSE
    /\ microtask = FALSE
    /\ store = Null
    /\ disposables = {}
    /\ disposedSubs = {}
    /\ invoked = <<>>
    /\ last = [op |-> "new", how |-> "constructed"]

NextBuilder == \E expr \in PathExpressions : Create(expr)

SpecBuilder == InitBuilder /\ [][NextBuilder]_vars

\* SpecWalk: one walk of a Walker, for every graph of MaxNode containers with
\* at most two children each, both orders, with and without walkReplacements,
\* and four visitors.  walk() runs to its end once called: weak fairness of
\* its steps.
InitWalk ==
    /\ cfg \in [graph : Graphs, depthFirst : BOOLEAN, walkReplacements : BOOLEAN,
                visitor : Visitors]
    /\ walk = [stack |-> <<>>, visited |-> <<>>, returned |-> <<>>, started |-> FALSE]
    /\ value = This
    /\ contents = <<>>
    /\ previousState = <<>>
    /\ events = <<>>
    /\ rev = 1
    /\ revId = 1
    /\ usedIds = {1}
    /\ conflicts = <<>>
    /\ changeSubscribers = <<>>
    /\ scheduleQueue = <<>>
    /\ schedulePending = FALSE
    /\ microtask = FALSE
    /\ store = Null
    /\ disposables = {}
    /\ disposedSubs = {}
    /\ invoked = <<>>
    /\ last = [op |-> "new", how |-> "constructed", back |-> FALSE]

NextWalk == WalkStart \/ WalkChild \/ WalkReturn

SpecWalk == InitWalk /\ [][NextWalk]_vars /\ WF_vars(NextWalk)

\* ----------------------------------------------------------------- claims
\* last.how = "noop" records that the value written was identical to the
\* value held; last.how of a sync records how the incoming revision and
\* revisionId compared with the local ones.

\* C1: the revision is >= 1 in every state and never decreases, and every
\* accepted write that bumps strictly increases it.
C1_RevisionMonotonic ==
    [][/\ rev' >= 1
       /\ rev' >= rev
       /\ (last'.op = "set" /\ last'.how # "noop" /\ last'.bump) => rev' > rev
       /\ (last'.op = "sync" /\ last'.set \notin {"none", "noop"}) => rev' > rev]_vars

\* C2: a merge whose revision is strictly greater than the local revision is
\* accepted: afterwards the Signal holds the remote value and its revision is
\* the remote revision + 1.
C2_HigherMergeAccepted ==
    (last.op = "sync" /\ last.how = "higher")
        => (value = last.rec.value /\ rev = last.rec.rev + 1)

\* C3: a merge of the local revision with a smaller revisionId leaves value,
\* revision and revisionId unchanged and appends the remote record to the
\* conflict history; with a greater revisionId it is accepted and the local
\* revision becomes the remote revision + 1.
C3_TieBreak ==
    [][(last'.op = "sync" /\ last'.rec.rev = rev) =>
          /\ last'.rec.revId < revId =>
                /\ UNCHANGED <<value, rev, revId>>
                /\ conflicts' # <<>>
                /\ conflicts'[Len(conflicts')] = last'.rec
          /\ last'.rec.revId > revId =>
                /\ value' = last'.rec.value
                /\ rev' = last'.rec.rev + 1]_vars

\* C4: set(newValue) with newValue identical (Object.is) to the current value
\* is a no-op: value, revision, revisionId and the persisted envelope are
\* unchanged and no change subscriber is invoked or enqueued.
C4_IdenticalWriteIsNoOp ==
    [][(last'.op = "set" /\ last'.how = "noop")
          => /\ UNCHANGED <<value, rev, revId, store>>
             /\ UNCHANGED <<scheduleQueue, schedulePending, microtask>>
             /\ invoked' = <<>>]_vars

\* an identical write has been made to a Signal that has a subscriber
C4_Witness ==
    /\ last.op = "set" /\ last.how = "noop"
    /\ changeSubscribers # <<>>

\* C5: with the default configuration the conflict history never holds more
\* than maxConflicting records.
C5_ConflictsBounded == Len(conflicts) <= maxConflicting

\* C6: a flush invokes each enqueued change subscriber exactly once, with the
\* value the Signal holds at the flush, however many notify() calls came
\* before it.
C6_CoalescedDelivery ==
    [][last'.op = "flush" => invoked' = Deliver(scheduleQueue, value, 0)]_vars

\* C7: when a subscriber throws during a flush, every subscriber enqueued for
\* that flush is still invoked in it.
C7_FlushIsolatesFailures ==
    [][(last'.op = "flush" /\ last'.how = "subscriberThrew")
          => Range(scheduleQueue) \subseteq {invoked'[i].sub : i \in DOMAIN invoked'}]_vars

\* C8: no change subscriber that dispose() removed is invoked afterwards, in
\* particular not by a flush armed before dispose().  (subscribe() invoking
\* the callback it is handed is a new registration, not a delivery.)
C8_NoDeliveryAfterDispose ==
    last.op # "subscribe" => InvokedSubs \cap disposedSubs = {}

\* C9: a flush does not invoke a subscriber that was unsubscribed after
\* notify() enqueued it: the callbacks it invokes are registered (those that
\* dispose() removed are the matter of C8).
C9_UnsubscribedNotFlushed ==
    last.op = "flush" => InvokedSubs \subseteq (Range(changeSubscribers) \cup disposedSubs)

\* C10: a step changes the revisionId if and only if it changes the revision.
C10_RevIdChangesWithRev == [][(revId' # revId) <=> (rev' # rev)]_vars

\* C11: a merge whose revision is strictly lower than the local revision is
\* ignored: value, revision, revisionId and conflict history are unchanged,
\* no change subscriber is invoked or enqueued and nothing is written to the
\* store.
C11_LowerMergeIgnored ==
    [][(last'.op = "sync" /\ last'.rec.rev < rev)
          => /\ UNCHANGED <<value, rev, revId, conflicts, store>>
             /\ UNCHANGED <<scheduleQueue, schedulePending, microtask>>
             /\ invoked' = <<>>]_vars

\* a merge of a lower revision, carrying another value than the one held, has
\* arrived at a Signal that has a subscriber
C11_Witness ==
    /\ last.op = "sync" /\ last.how = "lower"
    /\ last.rec.value # value
    /\ changeSubscribers # <<>>

\* C12: the conflict history holds only same-revision merges that were not
\* accepted: a merge that adds a record to it leaves value, revision and
\* revisionId unchanged, and a same-revision merge that the revisionId
\* tie-break accepts (its set() changes the Signal) adds no record.
C12_ConflictsAreRejectedMerges ==
    [][last'.op = "sync" =>
          /\ conflicts' # conflicts => UNCHANGED <<value, rev, revId>>
          /\ (last'.how = "tie" /\ last'.set \notin {"none", "noop"})
                => conflicts' = conflicts]_vars

\* C13: on an Arr with immediate delivery, each call of push, pop, shift,
\* unshift, splice, sort or reverse, each assignment to length and each
\* assignment to a numeric index invokes every registered subscriber exactly
\* once, with the contents the array has after the call (a subscriber that
\* throws aside).
C13_OneNotificationPerMutation ==
    [][(/\ last'.op \in {"push", "pop", "shift", "unshift", "splice", "sort",
                         "reverse", "length", "index"}
        /\ ~cfg.scheduling
        /\ last'.how # "subscriberThrew")
          => invoked' = Deliver(changeSubscribers, contents', 0)]_vars

\* C14 as stated, for any Obj: each write to a key not starting with "_"
\* causes one notification of its own for every registered subscriber (an
\* invocation with the map after the write or, with scheduling, a new entry
\* in the flush queue), and a write to a "_" key stores the value and
\* notifies nobody.
C14_OneNotificationPerWrite ==
    [][(last'.op = "write" /\ last'.how # "subscriberThrew") =>
          /\ contents' = [contents EXCEPT ![last'.key] = last'.val]
          /\ IF last'.key \in PrivateKeys
             THEN invoked' = <<>> /\ scheduleQueue' = scheduleQueue
             ELSE IF cfg.scheduling
             THEN /\ Range(changeSubscribers) \cap Range(scheduleQueue) = {}
                  /\ Range(changeSubscribers) \subseteq Range(scheduleQueue')
             ELSE invoked' = Deliver(changeSubscribers, contents', 0)]_vars

\* C14, amended: on an Obj with scheduling disabled, each write to a key not
\* starting with "_" stores the value and invokes the registered subscribers
\* once each, in registration order up to the first that throws, with the
\* map after the write; a write to a "_" key stores the value and invokes
\* nobody.
C14_OneNotificationPerImmediateWrite ==
    [][(last'.op = "write" /\ ~cfg.scheduling) =>
          /\ contents' = [contents EXCEPT ![last'.key] = last'.val]
          /\ IF last'.key \in PrivateKeys
             THEN invoked' = <<>>
             ELSE IF last'.how = "subscriberThrew"
             THEN \E k \in 1 .. Len(changeSubscribers) :
                     invoked' = Deliver(changeSubscribers, contents', k)
             ELSE invoked' = Deliver(changeSubscribers, contents', 0)]_vars

\* a key has been added to an Obj that has another key and NumSubs
\* subscribers, each of which got the map with both keys
C14_Witness ==
    /\ last.op = "write" /\ last.key = "b" /\ ~cfg.scheduling
    /\ contents["a"] # Absent /\ contents["b"] = last.val
    /\ Len(changeSubscribers) = NumSubs
    /\ invoked = Deliver(changeSubscribers, contents, 0)

\* C15: on the proxy of an Arr, which is made without the third argument of
\* Watcher.watch, every intercepted method call and every intercepted
\* assignment returns normally, unless a subscriber callback throws.
C15_OnMatchOptional ==
    last.op \in {"push", "pop", "shift", "unshift", "splice", "sort", "reverse",
                 "length", "index"}
        => last.how \in {"returned", "subscriberThrew"}

\* C16: subscribe called on the proxy does what subscribe of the Signal does:
\* it registers the callback, invokes nothing but that callback and that at
\* most once (the autorun call), enqueues nothing, and returns the
\* unsubscribe function unless the autorun call threw.
C16_SubscribeForwards ==
    [][last'.op = "subscribe" =>
          /\ last'.how \in {"added", "subscriberThrew"}
          /\ UNCHANGED <<scheduleQueue, schedulePending, microtask>>
          /\ Len(invoked') <= 1
          /\ last'.how = "added" =>
                \E s \in Subs :
                    /\ changeSubscribers' = SetAdd(changeSubscribers, s)
                    /\ invoked' \in {<<>>, <<[sub |-> s, val |-> contents]>>}]_vars

\* C17 as stated: subscribe(callback, autorun) always adds callback to the
\* change-subscriber set; it invokes callback, once and with the current
\* value, exactly when autorun is true and the value is neither null nor
\* undefined; a registered callback leaves the set only by unsubscribe() or
\* dispose().
C17_SubscribeAlwaysAdds ==
    [][/\ (last'.op = "subscribe" /\ last'.sub \in Subs) =>
            /\ changeSubscribers' = SetAdd(changeSubscribers, last'.sub)
            /\ invoked' = IF last'.autorun /\ value \notin {Undefined, JsNull}
                          THEN <<[sub |-> last'.sub, val |-> value]>>
                          ELSE <<>>
       /\ Range(changeSubscribers) \subseteq Range(changeSubscribers')
             \/ last'.op \in {"unsubscribe", "dispose"}]_vars

\* C17, amended: subscribe(callback, autorun) invokes callback, once and with
\* the current value, exactly when autorun is true and the value is neither
\* null nor undefined, and then adds callback to the change-subscriber set
\* unless that invocation threw; a registered callback leaves the set only
\* by unsubscribe() or dispose().
C17_SubscribeAddsUnlessAutorunThrows ==
    [][/\ (last'.op = "subscribe" /\ last'.sub \in Subs) =>
            /\ changeSubscribers' = IF last'.how = "subscriberThrew"
                                    THEN changeSubscribers
                                    ELSE SetAdd(changeSubscribers, last'.sub)
            /\ invoked' = IF last'.autorun /\ value \notin {Undefined, JsNull}
                          THEN <<[sub |-> last'.sub, val |-> value]>>
                          ELSE <<>>
       /\ Range(changeSubscribers) \subseteq Range(changeSubscribers')
             \/ last'.op \in {"unsubscribe", "dispose"}]_vars

\* subscribe(callback, true) on a Signal holding null has registered a
\* second callback without invoking it
C17_Witness ==
    /\ last.op = "subscribe" /\ last.autorun /\ value = JsNull
    /\ invoked = <<>>
    /\ Len(changeSubscribers) = 2
    /\ changeSubscribers[2] = last.sub

\* C18: with scheduling disabled, notify() and every accepted set() invoke
\* each registered change subscriber exactly once before returning, in the
\* order of registration, each with the current value (subscribers that
\* throw are the matter of C36).
C18_ImmediateDelivery ==
    [][(/\ ~cfg.scheduling
        /\ last'.op \in {"notify", "set"}
        /\ last'.how \notin {"noop", "subscriberThrew"})
          => invoked' = Deliver(changeSubscribers, value', 0)]_vars

C20_NonFunctionRejected ==
    [][(last'.op = "subscribe" /\ last'.sub \notin Subs) =>
          /\ last'.how = "notAFunction"
          /\ UNCHANGED <<changeSubscribers, value, rev, revId>>
          /\ UNCHANGED <<scheduleQueue, schedulePending, microtask>>
          /\ invoked' = <<>>]_vars

\* subscribe(x, false) with x not a function has been called on a Signal
\* that holds a value and has a subscriber
C20_Witness ==
    /\ last.op = "subscribe" /\ last.sub = NotAFunction /\ ~last.autorun
    /\ value = "a"
    /\ changeSubscribers # <<>>

\* the hooks and operations of the entries of ev, in order
HookNames(ev) == [k \in DOMAIN ev |-> ev[k].hook]

\* C21: a call proxy.m(x) of a method that has a member, in which no hook
\* throws, runs in this order the before hook, the map hook, the method on
\* the raw target, the after hook and subscriberFn("m"), each hook if the
\* member has it; nothing is run for the assignment to p the method makes;
\* the call returns what the method returned, and the method received the
\* mapped argument.
C21_CallOrder ==
    [][(/\ last'.op = "call"
        /\ getWatcherConfig(cfg.members, "m") # 0
        /\ last'.threw = "none") =>
          LET i == getWatcherConfig(cfg.members, "m")
              m == cfg.members[i]
          IN  /\ HookNames(invoked') =
                    SelectSeq(<<"before", "map", "apply", "after", "onMatch">>,
                              LAMBDA h : \/ h \in {"apply", "onMatch"}
                                         \/ h = "before" /\ m.before
                                         \/ h = "map" /\ m.map
                                         \/ h = "after" /\ m.after)
              /\ \A k \in DOMAIN invoked' :
                    invoked'[k].prop = "m" /\ invoked'[k].member = i
              /\ last'.how = "returned"
              /\ last'.result = contents["p"]
              /\ contents'["p"] = IF m.map THEN MapFn(last'.arg) ELSE last'.arg]_vars

HookEvents(ev, hooks) == {k \in DOMAIN ev : ev[k].hook \in hooks}

\* C22: a before, map or after hook that throws during an intercepted write
\* or method call ends the operation with that exception; when it is before,
\* the target is as it was and neither after nor onMatch has run.
C22_HookThrowPropagates ==
    [][(/\ last'.op \in {"set", "call"}
        /\ last'.threw \in {"before", "map", "after"}) =>
          /\ last'.how = "hookThrew"
          /\ invoked' # <<>>
          /\ invoked'[Len(invoked')].hook = last'.threw
          /\ last'.threw = "before" =>
                /\ contents' = contents
                /\ HookEvents(invoked', {"map", "set", "apply", "after", "onMatch"}) = {}]_vars

\* a before hook threw in a write or call that would have changed the target
C22_Witness ==
    /\ last.op \in {"set", "call"}
    /\ last.threw = "before"
    /\ last.how = "hookThrew"
    /\ last.arg # contents["p"]

\* C23: every hook and onMatch call of an operation belongs to the first
\* member, in declaration order, that accepts the property; a property no
\* member accepts is read and written with no hook and no onMatch call.
C23_FirstMatchWins ==
    [][last'.op \in {"set", "call", "get"} =>
          \A k \in DOMAIN invoked' :
              LET e == invoked'[k]
              IN  IF \E i \in DOMAIN cfg.members : e.prop \in cfg.members[i].names
                  THEN /\ e.member \in DOMAIN cfg.members
                       /\ e.prop \in cfg.members[e.member].names
                       /\ \A j \in 1 .. (e.member - 1) : e.prop \notin cfg.members[j].names
                       /\ e.hook = "before" => cfg.members[e.member].before
                       /\ e.hook = "map" => cfg.members[e.member].map
                       /\ e.hook = "after" => cfg.members[e.member].after
                  ELSE /\ e.member = 0
                       /\ e.hook \in {"set", "call"}]_vars

\* a write of a property two members accept, the second with a before hook
\* the first does not have: the write ran without it
C23_Witness ==
    /\ Len(cfg.members) = 2
    /\ "p" \in cfg.members[1].names /\ "p" \in cfg.members[2].names
    /\ ~cfg.members[1].before /\ cfg.members[2].before
    /\ cfg.members[1].after /\ ~cfg.members[2].after
    /\ last.op = "set"
    /\ last.how = "returned"
    /\ HookNames(invoked) = <<"set", "after", "onMatch">>

\* the parents' current values, in parent order
ParentList == [i \in DOMAIN Parents |-> value[Parents[i]]]
AllNonNull == \A i \in DOMAIN Parents : ~Nullish(value[Parents[i]])

C25_DisposedChildUntouched ==
    [][disposedSubs' # {} =>
          /\ \A p \in Range(Parents) : Callback \notin changeSubscribers'[p]
          /\ (\/ last'.op = "set"
              \/ last'.op = "flush" /\ last'.sig \in last'.late) =>
                /\ value'[Child] = value[Child]
                /\ contents' = contents
                /\ rev'[Child] = rev[Child]]_vars

DiffMutators == {"push", "pop", "reverse"}
EmptyDiff == [added |-> <<>>, removed |-> <<>>, moved |-> <<>>]

\* C26: every diffing subscription has a previous snapshot of its own: of two
\* subscribers that were both notified of the last mutation, both are called
\* for the next mutation that changes the contents, with the same diff, which
\* is not empty.
C26_OwnSnapshotPerSubscriber ==
    [][(/\ last.op \in DiffMutators
        /\ Len(invoked) = 2
        /\ last'.op \in DiffMutators
        /\ Len(changeSubscribers) = 2
        /\ contents' # contents) =>
          /\ Len(invoked') = 2
          /\ invoked'[1].changes = invoked'[2].changes
          /\ invoked'[1].changes # EmptyDiff]_vars

\* C27: a mutation of a sequence whose one diffing subscriber has a snapshot
\* equal to the contents calls that subscriber once, with added = the elements
\* of the new contents not contained in the old, removed = the elements of the
\* old not contained in the new, moved = the elements contained in both at a
\* different index.
C27_DiffDelivered ==
    [][(/\ last'.op \in DiffMutators
        /\ Len(changeSubscribers) = 1
        /\ previousState = contents) =>
          /\ Len(invoked') = 1
          /\ invoked'[1].sub = changeSubscribers[1].sub
          /\ invoked'[1].changes = diff(contents, contents')]_vars

\* C28: an Obj made with initial data exposes its entries: a write of one key
\* calls the subscribers with a map that has the value written under that
\* key and still has every other key of the initial data.
C28_InitialEntriesExposed ==
    [][(last'.op = "write" /\ last'.key \notin PrivateKeys /\ invoked' # <<>>) =>
          \A n \in DOMAIN invoked' :
              /\ invoked'[n].val[last'.key] = last'.val
              /\ \A key \in Keys \ {last'.key} :
                    cfg.data[key] # Absent => invoked'[n].val[key] # Absent]_vars

\* the elements of the array node at the path at
ElementsAt(tree, at) == {q \in DOMAIN tree : Len(q) = Len(at) + 1 /\ SubSeq(q, 1, Len(at)) = at
                                             /\ q[Len(q)] = "0"}

\* C29: Builder.create with a valid expression returns the node at the end
\* of the path and replaces no node: every node of the tree before is the
\* same node at the same path after; a sequence node at P/x still holds
\* exactly one element after create 'P/x.arr/0'; a create repeated with the
\* same expression returns the same node and adds nothing.
C29_CreateReusesNodes ==
    [][(last'.op = "create" /\ last'.how # "invalid") =>
          /\ last'.how = "returned"
          /\ \A q \in DOMAIN contents : q \in DOMAIN contents' /\ contents'[q] = contents[q]
          /\ last'.node = <<>> \/ last'.node \in DOMAIN contents'
          /\ (/\ last'.expr = <<"P", "x.arr", "0">>
              /\ <<"P", "x">> \in DOMAIN contents
              /\ IsArray(contents[<<"P", "x">>].kind)) =>
                Cardinality(ElementsAt(contents', <<"P", "x">>)) = 1
          /\ (last'.again /\ last.how = "returned") =>
                contents' = contents /\ last'.node = last.node]_vars

StackNodes == {walk.stack[k].node : k \in DOMAIN walk.stack}

\* C30: walk() returns on every graph of containers, cyclic or not; no
\* container is walked while it is being walked; and where a child is a
\* container already visited, the loop does not recurse: it stores the
\* container made for that child (or what the visitor put in its place) and
\* leaves every other container made so far as it is.
C30_WalkTerminates ==
    /\ <>(walk.returned # <<>>)
    /\ [](Cardinality(StackNodes) = Len(walk.stack))
    /\ [][(last'.op = "child" /\ last'.back) =>
             LET top == walk.stack[Len(walk.stack)]
                 c == cfg.graph[top.node][top.i]
                 stored == walk'.visited[top.node][top.i]
             IN  /\ Len(walk'.stack) = Len(walk.stack)
                 /\ DOMAIN walk'.visited = DOMAIN walk.visited
                 /\ \A m \in DOMAIN walk.visited \ {top.node} :
                       walk'.visited[m] = walk.visited[m]
                 /\ Len(walk'.visited[top.node]) = top.i
                 /\ IF cfg.visitor = "prune" THEN stored = Entry("repl", 0)
                    ELSE stored = Entry("ref", c)]_vars

\* the walk of two containers that hold each other has returned the
\* container made for the first, which holds the one made for the second,
\* which holds the one made for the first
C30_Witness ==
    /\ cfg.graph[1] = <<2>> /\ cfg.graph[2] = <<1>>
    /\ walk.returned = <<Entry("ref", 1)>>
    /\ walk.visited[1] = <<Entry("ref", 2)>>
    /\ walk.visited[2] = <<Entry("ref", 1)>>

\* C31: with scheduling the scheduler recovers after every flush: a flush,
\* also one in which a subscriber throws, leaves the queue empty and the
\* armed flag cleared, so that the flag is never set without a flush waiting
\* in the micro-task queue and a later notify() arms a new one.
C31_SchedulerRecovers ==
    /\ [](schedulePending => microtask)
    /\ [][last'.op = "flush" => (scheduleQueue' = <<>> /\ ~schedulePending')]_vars

\* the value of the last call the flush made of the callback s
LastDelivered(s) ==
    LET i == CHOOSE i \in DOMAIN invoked :
                 /\ invoked[i].sub = s
                 /\ \A j \in DOMAIN invoked : invoked[j].sub = s => j <= i
    IN  invoked[i].val

\* C32: with scheduling no update is lost: when a flush has ended and none is
\* armed, every registered callback it has called was last called with the
\* value the Signal holds, also when a callback wrote to the Signal during
\* the flush.  (Between two flushes a Signal with scheduling delivers
\* nothing, and every accepted write enqueues every registered callback.)
C32_NoLostUpdate ==
    (last.op = "flush" /\ ~schedulePending)
        => \A s \in InvokedSubs \cap Range(changeSubscribers) : LastDelivered(s) = value

\* C33: an envelope a Signal persisted, when a storage event delivers it to
\* the merge of another Signal with a revision higher than that Signal's,
\* leaves that Signal holding the value the envelope carries.
C33_EnvelopeRoundTrip ==
    (last.op = "event" /\ last.how = "higher") => value = last.env.val

\* C34: two Signals with persistence and synchronization on one key
\* converge: once a local write has been made and the host has no storage
\* event left to dispatch, both Signals, their listeners registered, hold the
\* same value.
C34_PeersConverge ==
    (/\ last.op = "set" /\ last.how # "noop"
     /\ events = <<>>
     /\ \A p \in Peers : Listening(disposables[p]))
        => value["A"] = value["B"]

\* C35: with persistence an accepted set() leaves in the store the envelope
\* that carries the new value, the new revision and the new revisionId (and
\* it does so before notify(), so that a callback reading the store during
\* delivery finds the revision of the write that triggered it).
C35_PersistedBeforeNotify ==
    [][(last'.op = "set" /\ last'.how # "noop" /\ cfg.persistence)
          => store' \in [rev : {rev'}, revId : {revId'}, val : {value'}]]_vars

\* C36: without scheduling, when a change subscriber throws during notify()
\* (called directly or by set()), the call ends with that exception, the
\* callbacks registered before the throwing one and the throwing one have
\* been invoked, in order, and those registered after it have not.
C36_FirstFailureAborts ==
    [][(last'.op \in {"set", "notify"} /\ last'.how = "subscriberThrew") =>
          /\ ~cfg.scheduling
          /\ last'.threw \in 1 .. Len(changeSubscribers)
          /\ Len(invoked') = last'.threw
          /\ \A i \in 1 .. last'.threw :
                invoked'[i] = [sub |-> changeSubscribers[i], val |-> value']]_vars

\* the first of two callbacks threw in a set(): the second was not invoked
C36_Witness ==
    /\ last.op = "set" /\ last.how = "subscriberThrew" /\ last.threw = 1
    /\ Len(changeSubscribers) = 2
    /\ InvokedSubs = {changeSubscribers[1]}

\* dispose() has run on a Signal made with synchronization: the disposable
\* the constructor kept for synchronize() is gone
Disposed == Synchronizes(cfg) /\ "removeEventListener" \notin disposables

\* C37: after dispose() of a Signal with synchronization no storage event
\* for its key reaches the merge: every event the host dispatches after the
\* disposal leaves value, revision, revisionId and conflict history as they
\* were.
C37_NoMergeAfterDispose ==
    [][(Disposed /\ last'.op \in {"event", "removed"})
          => UNCHANGED <<value, rev, revId, conflicts>>]_vars

\* an event with a revision above the Signal's was dispatched after dispose()
C37_Witness ==
    /\ Disposed
    /\ last.op = "event" /\ last.how = "noListener"
    /\ last.env.rev > rev

\* C38: the value handed to the subscribers of an Arr is the intercepting
\* proxy: a push made on it is intercepted and notifies, which enqueues the
\* registered callbacks (scheduling) or invokes them (no scheduling).
C38_DeliveredValueIntercepts ==
    [][(last'.op = "deliveredPush" /\ changeSubscribers # <<>>) =>
          IF cfg.scheduling
          THEN schedulePending' /\ Range(changeSubscribers) \subseteq Range(scheduleQueue')
          ELSE invoked' # <<>>]_vars

\* C39: a diffing subscriber called while the contents equal the snapshot
\* its diff is computed against is handed the empty diff, duplicates among
\* the elements or not.  (The first changeComputer of a call compares with
\* the snapshot held before the call, every later one with the snapshot the
\* one before it has just taken, which is the contents.)
C39_EqualContentsEmptyDiff ==
    [][\A i \in DOMAIN invoked' :
          (i > 1 \/ previousState = contents') => invoked'[i].changes = EmptyDiff]_vars

NoDuplicates(q) == \A i, j \in DOMAIN q : q[i] = q[j] => i = j

\* C40: the change subscribers form a set.  subscribe() of a callback that
\* is registered leaves the subscribers as they are, no call of set(),
\* notify() or flush invokes a callback twice, unsubscribe() of a callback
\* removes it and leaves the others in their order, and unsubscribe() of a
\* callback that is not registered changes nothing.
C40_SubscribersFormASet ==
    [][/\ NoDuplicates(changeSubscribers')
       /\ NoDuplicates([i \in DOMAIN invoked' |-> invoked'[i].sub])
       /\ (last'.op = "subscribe" /\ last'.how = "added" /\ last'.again)
             => changeSubscribers' = changeSubscribers
       /\ last'.op = "unsubscribe" =>
             /\ last'.sub \notin Range(changeSubscribers')
             /\ changeSubscribers' = SelectSeq(changeSubscribers, LAMBDA x : x # last'.sub)
             /\ last'.sub \notin Range(changeSubscribers) =>
                   UNCHANGED <<value, rev, revId, changeSubscribers, scheduleQueue,
                               schedulePending, microtask, store>>]_vars

\* a callback was registered a second time, next to another one
C40_Witness ==
    /\ last.op = "subscribe" /\ last.how = "added" /\ last.again
    /\ Len(changeSubscribers) = 2
====
